---- MODULE Spec2Model ----
(***************************************************************************)
(* Model of the AI-news aggregator: the URL-watermark change detector      *)
(* (services/newContentChecker.ts), the storage queries (db/queries) and   *)
(* the two pipeline entry points of services/newsPipeline.ts.              *)
(*                                                                         *)
(* Locators (article urls) are the numbers 1..NumLocs, 0 stands for null.  *)
(* Dates are the days 1..MaxDay, 0 stands for "no date".  An article is    *)
(* identified by its locator: its title, and so its hash, is a function of *)
(* the locator, and so is the publish date its page shows.                 *)
(***************************************************************************)
EXTENDS Integers, Sequences, FiniteSets, TLC

\* ---------------------------------------------------------------- bounds
NumSources == 2
NumLocs == 3
MaxDay == 2
MaxList == 3
NumTexts == 1
MaxRuns == 2
MaxRetry == 3
MaxPieces == 2
MaxContainers == 3
MaxChars == 3
MaxRows == 2
MaxBatch == 2
MaxSegs == 3
MaxContent == 2

\* ------------------------------------------------------ program constants
RecentDaysDefault == 3
MissedDaysDefault == 7
BaseDelayMs == 1000
ParserItemLimit == 20
NumTemplates == 5
MaxMessageLength == 4096
ContinuationMarkerLength == 17
TranslateMaxRetries == 2

NULL == 0
NoDate == 0
Sources == 1..NumSources
Locs == 1..NumLocs
Days == 1..MaxDay
Texts == 1..NumTexts

\* The source whose page carries article l, and the date that page shows.
OwnerOf(l) == ((l - 1) % NumSources) + 1
PubOf(l) == IF l > MaxDay THEN NoDate ELSE l
LocsOf(s) == {l \in Locs : OwnerOf(l) = s}

\* The source the single-source specifications look at.
DetSource == CHOOSE s \in Sources : TRUE

SeqToSet(q) == {q[i] : i \in 1..Len(q)}

VARIABLES
    feed,       \* feed[s]: what source s's news page lists now, newest first
    newsUrl,    \* newsUrl[s]: tools.news_url is set
    wm,         \* wm[s]: tools.last_parsed_url (the watermark), NULL if none
    chk,        \* the NewContentCheckResult of the latest check, with its inputs
    held,       \* held[s]: the locators wm[s] held before its current value
    today,      \* the clock, in days
    store,      \* news_items, one row per hash
    digests,    \* daily_digest, one row per date
    run,        \* the pipeline invocation in progress or just returned
    prev,       \* what the invocation made just before this one did
    runs,       \* number of pipeline invocations so far
    fetchCall,  \* the fetchUrl call in progress or just returned
    found,      \* the latest findParser call: its url and the parser returned
    parseCall,  \* the latest parse call of a per-source parser
    htmlCall,   \* the latest parse call of the generic HTML parser
    tbl,        \* news_items as a set of rows, and the latest insert made on it
    xform,      \* the latest transformNewsItems call: its input and its output
    tgCall,     \* the latest publishToTelegram call: the digest text and the lengths of the texts sent
    tr,         \* the generateDailyDigest / translateToRussian call under way
    race,       \* two overlapping checkAndUpdateLastParsed calls on one source
    ov          \* two overlapping runRollingDigestPipeline runs, the clock and daily_digest

vars == <<feed, newsUrl, wm, chk, held, today, store, digests, run, prev, runs, fetchCall, found, parseCall, htmlCall, tbl, xform, tgCall, tr, race, ov>>
detectorVars == <<feed, newsUrl, wm, chk, held>>
pipelineVars == <<today, store, digests, run, prev, runs>>
parserVars == <<fetchCall, found, parseCall, htmlCall>>
unitVars == <<tbl, xform, tgCall, tr, race, ov>>

\* ------------------------------------------------------- change detector

\* A parser's parse(url, tool, new Date(0)): the page's whole list, the
\* empty list when fetchUrl reports a failure; "throws" is raised to the caller.
ParseAll(list, outcome) == IF outcome = "ok" THEN list ELSE <<>>

NoContentAsNew(latest, previous) ==
    [hasNewContent |-> TRUE, newItems |-> <<>>,
     latestUrl |-> latest, previousUrl |-> previous]
NoContent(latest, previous) ==
    [hasNewContent |-> FALSE, newItems |-> <<>>,
     latestUrl |-> latest, previousUrl |-> previous]

\* The try block of checkForNewContent encloses findParser and parser.parse:
\* what they raise is caught and turned into a no-content result.
ParseInTryNot(outcome) == FALSE
ParseInTry(outcome) == TRUE

\* First check of a source: only the newest item is reported.
FirstCheckItemsAll(allNews) == allNews
FirstCheckItems(allNews) == <<Head(allNews)>>

\* The for-loop of checkForNewContent: push items until the one whose url
\* is the stored watermark.
RECURSIVE CollectNewInclusive(_, _)
CollectNewInclusive(allNews, lastParsed) ==
    IF allNews = <<>> THEN <<>>
    ELSE IF Head(allNews) = lastParsed THEN <<Head(allNews)>>
    ELSE <<Head(allNews)>> \o CollectNewInclusive(Tail(allNews), lastParsed)

RECURSIVE CollectNew(_, _)
CollectNew(allNews, lastParsed) ==
    IF allNews = <<>> THEN <<>>
    ELSE IF Head(allNews) = lastParsed THEN <<>>
    ELSE <<Head(allNews)>> \o CollectNew(Tail(allNews), lastParsed)

\* tool: [id, news_url, last_parsed_url]; list: the page; outcome of the parse.
CheckForNewContent(tool, list, outcome) ==
    IF ~tool.news_url THEN NoContent(NULL, tool.last_parsed_url)
    ELSE IF outcome = "throws" THEN NoContent(NULL, tool.last_parsed_url)
    ELSE LET allNews == ParseAll(list, outcome) IN
        IF Len(allNews) = 0 THEN NoContent(NULL, tool.last_parsed_url)
        ELSE LET latestUrl == allNews[1] IN
            IF tool.last_parsed_url = NULL
            THEN [hasNewContent |-> TRUE, newItems |-> FirstCheckItems(allNews),
                  latestUrl |-> latestUrl, previousUrl |-> NULL]
            ELSE IF latestUrl = tool.last_parsed_url
            THEN NoContent(latestUrl, tool.last_parsed_url)
            ELSE LET newItems == CollectNew(allNews, tool.last_parsed_url) IN
                [hasNewContent |-> Len(newItems) > 0, newItems |-> newItems,
                 latestUrl |-> latestUrl, previousUrl |-> tool.last_parsed_url]

\* The condition under which checkAndUpdateLastParsed writes the watermark.
ShouldUpdateAlways(updateDb, result) == updateDb
ShouldUpdate(updateDb, result) ==
    updateDb /\ result.hasNewContent /\ result.latestUrl # NULL

\* updateToolLastParsedUrl(tool.id, url): single-field update of the row.
UpdateToolLastParsedUrl(w, id, url) == [w EXCEPT ![id] = url]

ToolRow(s, lastParsed) ==
    [id |-> s, news_url |-> newsUrl[s], last_parsed_url |-> lastParsed]

NoCheck ==
    [tool |-> 0, updateDb |-> FALSE, outcome |-> "none", wrote |-> FALSE,
     threw |-> FALSE,
     result |-> [hasNewContent |-> FALSE, newItems |-> <<>>,
                 latestUrl |-> NULL, previousUrl |-> NULL]]

\* ------------------------------------------------------------ environment

\* The site replaces its list (publishes, prunes, reorders, retracts).
SiteUpdate(s, list) ==
    /\ list # feed[s]
    /\ feed' = [feed EXCEPT ![s] = list]
    /\ chk' = NoCheck
    /\ UNCHANGED <<newsUrl, wm, held>>

\* The watermark history after wm[s] is written with url.
HeldAfter(s, url) ==
    IF url # wm[s] /\ wm[s] # NULL
    THEN [held EXCEPT ![s] = @ \cup {wm[s]}] ELSE held

\* One call of checkAndUpdateLastParsed(tool, updateDb) on the current row.
Check(s, updateDb, outcome) ==
    LET result == CheckForNewContent(ToolRow(s, wm[s]), feed[s], outcome)
        threw == newsUrl[s] /\ outcome = "throws" /\ ~ParseInTry(outcome)
        write == ~threw /\ ShouldUpdate(updateDb, result)
    IN  /\ wm' = IF write THEN UpdateToolLastParsedUrl(wm, s, result.latestUrl)
                 ELSE wm
        /\ held' = IF write THEN HeldAfter(s, result.latestUrl) ELSE held
        /\ chk' = [tool |-> s, updateDb |-> updateDb, outcome |-> outcome,
                   wrote |-> write, threw |-> threw, result |-> result]
        /\ UNCHANGED <<feed, newsUrl>>

ParseOutcomes == {"ok", "fetch_failed", "throws"}

\* ------------------------------------------------- pipeline: initial state

NoRow == [text |-> 0, items |-> {}]
NoItem == [stored |-> FALSE, digest_date |-> NoDate, importance |-> "none"]

IdleRun ==
    [pc |-> "idle", kind |-> "none",
     date |-> NoDate, force |-> FALSE, fetch |-> FALSE, publish |-> FALSE,
     dryRun |-> FALSE, recentDays |-> 0,
     existing |-> NoRow, ret |-> "none", tools |-> <<>>, allNews |-> {},
     fTotal |-> 0, fProcessed |-> 0, fErrors |-> <<>>,
     news |-> {}, missed |-> {}, text |-> 0,
     ok |-> FALSE, totalNews |-> 0, toolsProcessed |-> 0,
     digestGenerated |-> FALSE, digestFromCache |-> FALSE,
     telegramPublished |-> FALSE, newsMarkedAsDigested |-> 0, errors |-> <<>>,
     \* bookkeeping of what the invocation did
     startRow |-> NoRow, llmCalls |-> 0, handed |-> <<>>, reported |-> {},
     fetchFailed |-> {}, storageFailed |-> {}, composed |-> {}, saved |-> FALSE]

\* No invocation came just before (or the world moved since).
NoPrev == [daily |-> NoDate, sentDate |-> NoDate, sentText |-> 0]

InitPipeline ==
    /\ today = 1
    /\ store = [l \in Locs |-> NoItem]
    /\ digests = [d \in Days |-> NoRow]
    /\ run = IdleRun
    /\ prev = NoPrev
    /\ runs = 0

\* ---------------------------------------------------------- storage layer

\* insertNewsItems: upsert on hash, ignoreDuplicates; new rows get the
\* column defaults (digest_date null) and importance null.
InsertNewsItems(st, items) ==
    [l \in Locs |->
        IF l \in items /\ ~st[l].stored
        THEN [stored |-> TRUE, digest_date |-> NoDate, importance |-> "none"]
        ELSE st[l]]

\* getTodayNews(date): rows published on that day, whatever their marker.
GetTodayNews(st, date) ==
    {l \in Locs : st[l].stored /\ PubOf(l) # NoDate /\ PubOf(l) = date}

\* getNewsForDigest: the recent bucket (dated rows inside the recent window
\* plus undated rows) and the missed bucket, all with a null marker.  A
\* failure of the undated or of the missed query leaves that part empty.
GetNewsForDigest(st, now, recentDays, missedDays, undatedOk, missedOk) ==
    LET recentCutoff == now - recentDays
        missedCutoff == now - missedDays
        recentData == {l \in Locs : /\ st[l].stored
                                    /\ st[l].digest_date = NoDate
                                    /\ PubOf(l) # NoDate
                                    /\ PubOf(l) >= recentCutoff}
        undatedNews == IF undatedOk
                       THEN {l \in Locs : /\ st[l].stored
                                          /\ st[l].digest_date = NoDate
                                          /\ PubOf(l) = NoDate}
                       ELSE {}
        missedData == IF missedOk
                      THEN {l \in Locs : /\ st[l].stored
                                         /\ st[l].digest_date = NoDate
                                         /\ PubOf(l) # NoDate
                                         /\ PubOf(l) >= missedCutoff
                                         /\ PubOf(l) < recentCutoff
                                         /\ st[l].importance \in {"high"}}
                      ELSE {}
    IN  [recentNews |-> recentData \cup undatedNews, missedNews |-> missedData]

\* markNewsAsDigested(ids, date): update digest_date where id in ids.
MarkNewsAsDigested(st, newsIds, digestDate) ==
    [l \in Locs |->
        IF l \in newsIds THEN [st[l] EXCEPT !.digest_date = digestDate]
        ELSE st[l]]

\* saveDailyDigest: upsert on date (overwrite).
SaveDailyDigest(dg, date, text, items) ==
    [dg EXCEPT ![date] = [text |-> text, items |-> items]]

\* getDailyDigest(date): the row, NoRow when there is none.
GetDailyDigest(dg, date) == dg[date]

\* ------------------------------------------------- pipeline: control flow

ErrorEntry(at, msg, tool) == [at |-> at, msg |-> msg, tool |-> tool]

\* Every awaited call of both pipelines sits inside the function's try block.
InTryButInsert(pc) == pc # "f_insert"
InTry(pc) == TRUE

\* The catch block of runDailyDigestPipeline.
DailyCatch(r, msg) ==
    [r EXCEPT !.pc = "done", !.ok = FALSE,
              !.errors = Append(@, ErrorEntry("fatal", msg, 0))]

\* The catch block of runRollingDigestPipeline.
RollingCatch(r, msg) ==
    [r EXCEPT !.pc = "done", !.ok = FALSE,
              !.digestGenerated = FALSE, !.telegramPublished = FALSE,
              !.newsMarkedAsDigested = 0,
              !.errors = Append(@, ErrorEntry("fatal", msg, 0))]

\* An awaited call rejects at r.pc with message msg.
Raise(r, msg) ==
    IF ~InTry(r.pc) THEN [r EXCEPT !.pc = "thrown"]
    ELSE IF r.kind = "daily" THEN DailyCatch(r, msg)
    ELSE RollingCatch(r, msg)

StorageFailed(r, op) == [r EXCEPT !.storageFailed = @ \cup {op}]

Returned == run.pc \in {"idle", "done", "thrown"}

\* What the next invocation's caller knows of the invocation that returned:
\* the target date when it was a successful daily run without
\* forceRegenerate, and the date and text it delivered to the channel.
PrevOf(r) ==
    IF r.pc # "done" THEN NoPrev
    ELSE [daily |-> IF r.kind = "daily" /\ ~r.force /\ r.ok THEN r.date ELSE NoDate,
          sentDate |-> IF r.telegramPublished THEN r.date ELSE NoDate,
          sentText |-> IF r.telegramPublished THEN r.handed[1] ELSE 0]

\* Time passes between invocations: the result of the last one is gone.
Forget ==
    /\ run' = IdleRun
    /\ prev' = NoPrev

\* runDailyDigestPipeline({targetDate, forceRegenerate, skipNewsFetch,
\* publishToTelegram}) is invoked.
StartDaily(date, force, skip, publish) ==
    /\ Returned
    /\ run' = [IdleRun EXCEPT !.pc = "d_getDigest", !.kind = "daily",
                              !.date = date, !.force = force, !.fetch = ~skip,
                              !.publish = publish,
                              !.startRow = digests[date]]
    /\ prev' = PrevOf(run)
    /\ runs' = runs + 1
    /\ chk' = NoCheck
    /\ UNCHANGED <<feed, newsUrl, wm, held, today, store, digests, parserVars, unitVars>>

\* runRollingDigestPipeline({recentDays, fetchNews, publishToTelegram,
\* dryRun}) is invoked; missedDays keeps its default.
StartRolling(recentDays, fetchNews, publish, dry) ==
    /\ Returned
    /\ run' = [IdleRun EXCEPT !.pc = IF fetchNews THEN "f_getTools"
                                     ELSE "r_getNews",
                              !.ret = "r_getNews", !.kind = "rolling",
                              !.date = today, !.fetch = fetchNews,
                              !.publish = publish, !.dryRun = dry,
                              !.recentDays = recentDays,
                              !.startRow = digests[today]]
    /\ prev' = PrevOf(run)
    /\ runs' = runs + 1
    /\ chk' = NoCheck
    /\ UNCHANGED <<feed, newsUrl, wm, held, today, store, digests, parserVars, unitVars>>

\* The cache decision: if (existingDigest && !forceRegenerate).
ServedFromCacheNever(existingDigest, forceRegenerate) == FALSE
ServedFromCache(existingDigest, forceRegenerate) ==
    existingDigest # NoRow /\ ~forceRegenerate

\* Step 1 of the daily pipeline: getDailyDigest and the cache decision.
DGetDigest(fail) ==
    /\ run.pc = "d_getDigest"
    /\ LET existing == GetDailyDigest(digests, run.date)
           cached == ServedFromCache(existing, run.force)
           next == IF cached THEN "d_cachePublish" ELSE "d_getNews"
       IN run' = IF fail
                 THEN Raise(StorageFailed(run, "getDailyDigest"), "getDailyDigest")
                 ELSE [run EXCEPT !.existing = existing,
                                  !.digestFromCache = cached,
                                  !.ret = next,
                                  !.pc = IF run.fetch THEN "f_getTools" ELSE next]
    /\ UNCHANGED <<detectorVars, today, store, digests, prev, runs, parserVars, unitVars>>

\* fetchAndInsertNews: getActiveTools (every source is active; the rows are
\* read once, here).
FGetTools(fail) ==
    /\ run.pc = "f_getTools"
    /\ run' = IF fail
              THEN Raise(StorageFailed(run, "getActiveTools"), "getActiveTools")
              ELSE [run EXCEPT !.tools = [s \in Sources |-> ToolRow(s, wm[s])],
                               !.pc = "f_tool"]
    /\ UNCHANGED <<detectorVars, today, store, digests, prev, runs, parserVars, unitVars>>

\* fetchAndInsertNews: one iteration of the loop over the tools, with
\* fetchNewToolNews(tool, true) and the loop's catch.
FTool(outcome, writeOk) ==
    /\ run.pc = "f_tool"
    /\ LET tool == Head(run.tools)
           s == tool.id
           result == CheckForNewContent(tool, feed[s], outcome)
           write == ShouldUpdate(TRUE, result)
           rest == Tail(run.tools)
           r0 == [run EXCEPT !.tools = rest,
                             !.pc = IF rest = <<>> THEN "f_insert" ELSE "f_tool",
                             !.fetchFailed = IF outcome = "ok" THEN @
                                             ELSE @ \cup {s}]
           parsedNews == result.newItems
       IN  /\ (write \/ writeOk)
           /\ chk' = NoCheck   \* fetchNewToolNews returns result.newItems only
           /\ IF write /\ ~writeOk
              THEN \* updateToolLastParsedUrl rejects: caught by the loop
                   /\ run' = [StorageFailed(r0, "updateToolLastParsedUrl")
                                EXCEPT !.fErrors = Append(@,
                                   ErrorEntry("tool", "updateToolLastParsedUrl", s))]
                   /\ UNCHANGED <<wm, held>>
              ELSE /\ wm' = IF write
                            THEN UpdateToolLastParsedUrl(wm, s, result.latestUrl)
                            ELSE wm
                   /\ held' = IF write THEN HeldAfter(s, result.latestUrl)
                              ELSE held
                   /\ run' = IF Len(parsedNews) = 0 THEN r0
                             ELSE [r0 EXCEPT
                                     !.allNews = @ \cup SeqToSet(parsedNews),
                                     !.reported = @ \cup SeqToSet(parsedNews),
                                     !.fTotal = @ + Len(parsedNews),
                                     !.fProcessed = @ + 1]
    /\ UNCHANGED <<feed, newsUrl, today, store, digests, prev, runs, parserVars, unitVars>>

\* fetchAndInsertNews: the bulk insert and the return to the caller, which
\* copies the counters and appends the per-tool errors.
FInsert(fail) ==
    /\ run.pc = "f_insert"
    /\ (fail => run.allNews # {})
    /\ IF fail
       THEN /\ run' = Raise(StorageFailed(run, "insertNewsItems"), "insertNewsItems")
            /\ UNCHANGED store
       ELSE /\ store' = InsertNewsItems(store, run.allNews)
            /\ run' = [run EXCEPT
                  !.pc = run.ret,
                  !.totalNews = IF run.kind = "daily" THEN run.fTotal ELSE @,
                  !.toolsProcessed = IF run.kind = "daily" THEN run.fProcessed ELSE @,
                  !.errors = @ \o run.fErrors]
    /\ UNCHANGED <<detectorVars, today, digests, prev, runs, parserVars, unitVars>>

\* Whether a pipeline hands the summary to publishToTelegram.
ShouldPublishIgnoringFlag(shouldPublish, summary) == summary # 0
ShouldPublish(shouldPublish, summary) == shouldPublish /\ summary # 0

\* A publishToTelegram(summary, date) call and the caller's bookkeeping.
\* publishToTelegram returns {success} or {success: false, error}.
PublishedDroppingError(r, summary, success, at) ==
    IF success
    THEN [r EXCEPT !.telegramPublished = TRUE, !.handed = Append(@, summary)]
    ELSE [r EXCEPT !.handed = Append(@, summary)]
Published(r, summary, success, at) ==
    IF success
    THEN [r EXCEPT !.telegramPublished = TRUE, !.handed = Append(@, summary)]
    ELSE [r EXCEPT !.handed = Append(@, summary),
                   !.errors = Append(@, ErrorEntry(at, "telegram", 0))]

\* The cache branch of the daily pipeline: publish the cached digest, return.
DCachePublish(success) ==
    /\ run.pc = "d_cachePublish"
    /\ LET summary == run.existing.text
           pub == ShouldPublish(run.publish, summary)
           r1 == IF pub THEN Published(run, summary, success, "telegram") ELSE run
       IN  /\ (pub \/ success)
           /\ run' = [r1 EXCEPT !.pc = "done", !.ok = TRUE,
                                !.digestGenerated = FALSE,
                                !.digestFromCache = TRUE]
    /\ UNCHANGED <<detectorVars, today, store, digests, prev, runs, parserVars, unitVars>>

\* Step 3 of the daily pipeline without the newsForDigest.length > 0 test.
DGetNewsAlwaysGenerating(fail) ==
    /\ run.pc = "d_getNews"
    /\ run' = IF fail
              THEN Raise(StorageFailed(run, "getTodayNews"), "getTodayNews")
              ELSE [run EXCEPT !.news = GetTodayNews(store, run.date),
                               !.pc = "generate"]
    /\ UNCHANGED <<detectorVars, today, store, digests, prev, runs, parserVars, unitVars>>

\* Step 3 of the daily pipeline: getTodayNews(dateStr).
DGetNews(fail) ==
    /\ run.pc = "d_getNews"
    /\ LET newsForDigest == GetTodayNews(store, run.date)
       IN run' = IF fail
                 THEN Raise(StorageFailed(run, "getTodayNews"), "getTodayNews")
                 ELSE [run EXCEPT !.news = newsForDigest,
                                  !.pc = IF newsForDigest # {} THEN "generate"
                                         ELSE "publish"]
    /\ UNCHANGED <<detectorVars, today, store, digests, prev, runs, parserVars, unitVars>>

\* The completion call rejects: generateDailyDigest logs and rethrows, and
\* the pipeline has no handler of its own around the call.
GenerationFailedRecorded(r) ==
    [r EXCEPT !.pc = "publish",
              !.errors = Append(@, ErrorEntry("generation", "generateDailyDigest", 0))]
GenerationFailed(r) == Raise(r, "generateDailyDigest")

\* generateDailyDigest(news, date): one completion call for the English
\* text; its rejection is rethrown to the pipeline.  text = 0: it rejected.
Generate(text) ==
    /\ run.pc = "generate"
    /\ run' = IF text = 0
              THEN GenerationFailed([run EXCEPT !.llmCalls = @ + 1])
              ELSE [run EXCEPT !.llmCalls = @ + 1, !.text = text, !.pc = "save"]
    /\ UNCHANGED <<detectorVars, today, store, digests, prev, runs, parserVars, unitVars>>

\* saveDailyDigest of the generated digest (both pipelines).
Save(fail) ==
    /\ run.pc = "save"
    /\ IF fail
       THEN /\ run' = Raise(StorageFailed(run, "saveDailyDigest"), "saveDailyDigest")
            /\ UNCHANGED digests
       ELSE /\ digests' = SaveDailyDigest(digests, run.date, run.text,
                                          run.news \cup run.missed)
            /\ run' = [run EXCEPT
                  !.saved = TRUE, !.composed = run.news \cup run.missed,
                  !.digestGenerated = IF run.kind = "daily" THEN TRUE ELSE @,
                  !.pc = IF run.kind = "daily" THEN "publish" ELSE "r_mark"]
    /\ UNCHANGED <<detectorVars, today, store, prev, runs, parserVars, unitVars>>

\* Step 4 of the rolling pipeline: markNewsAsDigested unless dryRun.
RMark(fail) ==
    /\ run.pc = "r_mark"
    /\ (fail => ~run.dryRun)
    /\ LET allNewsIds == run.news \cup run.missed IN
       IF run.dryRun
       THEN /\ run' = [run EXCEPT !.pc = "publish"]
            /\ UNCHANGED store
       ELSE IF fail
       THEN /\ run' = Raise(StorageFailed(run, "markNewsAsDigested"),
                            "markNewsAsDigested")
            /\ UNCHANGED store
       ELSE /\ store' = MarkNewsAsDigested(store, allNewsIds, run.date)
            /\ run' = [run EXCEPT
                         !.newsMarkedAsDigested = Cardinality(allNewsIds),
                         !.pc = "publish"]
    /\ UNCHANGED <<detectorVars, today, digests, prev, runs, parserVars, unitVars>>

\* The publish step of both pipelines and the successful return.
Publish(success) ==
    /\ run.pc = "publish"
    /\ LET summary == run.text
           pub == ShouldPublish(run.publish, summary)
           r1 == IF pub THEN Published(run, summary, success, "telegram") ELSE run
       IN  /\ (pub \/ success)
           /\ run' = [r1 EXCEPT
                        !.pc = "done", !.ok = TRUE,
                        !.digestGenerated = IF run.kind = "rolling" THEN TRUE ELSE @]
    /\ UNCHANGED <<detectorVars, today, store, digests, prev, runs, parserVars, unitVars>>

\* Step 2 of the rolling pipeline: getNewsForDigest and the empty return.
RGetNews(outcome) ==
    /\ run.pc = "r_getNews"
    /\ LET got == GetNewsForDigest(store, today, run.recentDays,
                                   MissedDaysDefault,
                                   outcome # "undated_failed",
                                   outcome # "missed_failed")
           totalNews == Cardinality(got.recentNews) + Cardinality(got.missedNews)
           r0 == IF outcome = "ok" THEN run ELSE StorageFailed(run, outcome)
       IN run' = IF outcome = "recent_failed"
                 THEN Raise(r0, "getNewsForDigest")
                 ELSE IF totalNews = 0
                 THEN [r0 EXCEPT !.pc = "done", !.ok = TRUE,
                                 !.digestGenerated = FALSE,
                                 !.telegramPublished = FALSE,
                                 !.newsMarkedAsDigested = 0]
                 ELSE [r0 EXCEPT !.news = got.recentNews,
                                 !.missed = got.missedNews,
                                 !.pc = "generate"]
    /\ UNCHANGED <<detectorVars, today, store, digests, prev, runs, parserVars, unitVars>>

NewsQueryOutcomes == {"ok", "recent_failed", "undated_failed", "missed_failed"}

\* ------------------------------------------- pipeline: the world around it

\* A day passes.
Tick ==
    /\ Returned
    /\ today < MaxDay
    /\ today' = today + 1
    /\ Forget
    /\ UNCHANGED <<detectorVars, store, digests, runs, parserVars, unitVars>>

\* The external classifier rates a stored item as high importance.
Classify(l) ==
    /\ Returned
    /\ store[l].stored /\ store[l].importance = "none"
    /\ store' = [store EXCEPT ![l].importance = "high"]
    /\ Forget
    /\ UNCHANGED <<detectorVars, today, digests, runs, parserVars, unitVars>>

\* A source publishes an article: it goes to the top of its page.
SitePublish ==
    /\ Returned
    /\ \E s \in Sources : \E l \in LocsOf(s) \ SeqToSet(feed[s]) :
          /\ Len(feed[s]) < MaxList
          /\ SiteUpdate(s, <<l>> \o feed[s])
    /\ Forget
    /\ UNCHANGED <<today, store, digests, runs, parserVars, unitVars>>

\* ------------------------------------------------------------- fetchUrl
\* parsers/utils.ts. A call is stepped at its awaits: the backoff delay, the
\* request, the reading of the body.
Statuses == {200, 304, 400, 404, 429, 500, 503}
ContentTypes == {"", "text/html"}

\* What awaiting fetch() can end in besides a response: the AbortController
\* fired (its timer is cleared once the response is there), or the
\* connection failed. Reading the body can fail once the timer is cleared.
RequestFaults == {"timeout", "network"}
BodyFaults == {"body"}

\* error.message of what the runtime throws for each fault.
ThrownMessage(fault) ==
    CASE fault = "timeout" -> "This operation was aborted"
      [] fault = "network" -> "fetch failed"
      [] fault = "body" -> "terminated"

\* lastError.includes("abort")
IncludesAbort(message) == message = "This operation was aborted"

\* response.ok
ResponseOk(status) == status >= 200 /\ status <= 299

\* status >= 400 && status < 500 && status !== 429
TerminalStatusNo429(status) == status >= 400 /\ status < 500

TerminalStatus(status) == status >= 400 /\ status < 500 /\ status # 429

\* for (...; attempt <= retryCount; ...)
MoreAttemptsExclusive(attempt, retryCount) == attempt < retryCount

MoreAttempts(attempt, retryCount) == attempt <= retryCount

\* delay(1000 * attempt)
BackoffDoubling(attempt) == BaseDelayMs * 2 ^ (attempt - 1)

Backoff(attempt) == BaseDelayMs * attempt

NoError == [status |-> 0, message |-> ""]
NoResult == [ok |-> FALSE, contentType |-> "", text |-> 0, error |-> NoError]

\* No call made yet. outcomes and delays are the history of the call: what
\* each attempt ended in, and each delay awaited.
NoFetch ==
    [pc |-> "idle", retryCount |-> 0, attempt |-> 0, status |-> 0,
     lastError |-> NoError, result |-> NoResult, outcomes |-> <<>>,
     delays |-> <<>>]

\* return { ok: false, contentType: "", text: "", error }
FetchFailure(c, error) ==
    [c EXCEPT !.pc = "returned",
              !.result = [ok |-> FALSE, contentType |-> "", text |-> 0,
                          error |-> error]]

\* The head of the loop for attempt number `attempt`: first the backoff
\* delay on a retry, then the request; after the loop, the last error.
LoopTop(c, attempt) ==
    IF MoreAttempts(attempt, c.retryCount)
    THEN [c EXCEPT !.attempt = attempt, !.status = 0,
                   !.pc = IF attempt > 0 THEN "delay" ELSE "fetch"]
    ELSE FetchFailure([c EXCEPT !.attempt = attempt], c.lastError)

\* catch (error): a timeout ends the call, anything else goes round the loop.
Catch(c, message) ==
    LET d == [c EXCEPT !.lastError = [status |-> 0, message |-> message]]
    IN IF IncludesAbort(message)
       THEN FetchFailure(d, [status |-> 0, message |-> "Timeout"])
       ELSE LoopTop(d, c.attempt + 1)

\* Every await of the loop body is inside the try.
AwaitInTry == TRUE

Thrown(c, message) ==
    IF AwaitInTry THEN Catch(c, message) ELSE [c EXCEPT !.pc = "thrown"]

Ended(c, status, fault) ==
    [c EXCEPT !.outcomes = Append(@, [status |-> status, fault |-> fault])]

\* fetchUrl(url, timeoutMs, retryCount) is called.
FetchUrl(retryCount) ==
    /\ fetchCall.pc \in {"idle", "returned"}
    /\ fetchCall' = LoopTop([NoFetch EXCEPT !.retryCount = retryCount], 0)
    /\ UNCHANGED <<detectorVars, pipelineVars, found, parseCall, htmlCall, tbl, xform, tgCall, tr, race, ov>>

\* await delay(1000 * attempt)
FetchDelay ==
    /\ fetchCall.pc = "delay"
    /\ fetchCall' = [fetchCall EXCEPT !.pc = "fetch",
                                      !.delays = Append(@, Backoff(fetchCall.attempt))]
    /\ UNCHANGED <<detectorVars, pipelineVars, found, parseCall, htmlCall, tbl, xform, tgCall, tr, race, ov>>

\* await fetch(url, options) answers with a status.
FetchResponse(status) ==
    /\ fetchCall.pc = "fetch"
    /\ fetchCall' =
          IF ResponseOk(status)
          THEN [fetchCall EXCEPT !.pc = "text", !.status = status]
          ELSE LET c == [Ended(fetchCall, status, "")
                            EXCEPT !.lastError = [status |-> status,
                                                  message |-> "HTTP"]]
               IN IF TerminalStatus(status)
                  THEN FetchFailure(c, c.lastError)
                  ELSE LoopTop(c, c.attempt + 1)
    /\ UNCHANGED <<detectorVars, pipelineVars, found, parseCall, htmlCall, tbl, xform, tgCall, tr, race, ov>>

\* await fetch(url, options) throws.
FetchThrows(fault) ==
    /\ fetchCall.pc = "fetch"
    /\ fetchCall' = Thrown(Ended(fetchCall, 0, fault), ThrownMessage(fault))
    /\ UNCHANGED <<detectorVars, pipelineVars, found, parseCall, htmlCall, tbl, xform, tgCall, tr, race, ov>>

\* await response.text() gives the body.
FetchText(contentType, text) ==
    /\ fetchCall.pc = "text"
    /\ fetchCall' = [Ended(fetchCall, fetchCall.status, "")
                        EXCEPT !.pc = "returned",
                               !.result = [ok |-> TRUE,
                                           contentType |-> contentType,
                                           text |-> text, error |-> NoError]]
    /\ UNCHANGED <<detectorVars, pipelineVars, found, parseCall, htmlCall, tbl, xform, tgCall, tr, race, ov>>

\* await response.text() throws.
FetchTextThrows(fault) ==
    /\ fetchCall.pc = "text"
    /\ fetchCall' = Thrown(Ended(fetchCall, fetchCall.status, fault),
                           ThrownMessage(fault))
    /\ UNCHANGED <<detectorVars, pipelineVars, found, parseCall, htmlCall, tbl, xform, tgCall, tr, race, ov>>

\* ------------------------------------------------------------ findParser
\* A url is known by the pieces of text it contains, out of those the
\* parsers look for; UrlTails are the feed patterns of RssParser.canParse.
UrlTails ==
    {"/feed/?$", "/rss/?$", ".rss$", ".xml$", "/atom/?$", "feed.xml", "rss.xml"}

\* The pieces that contain "blog".
BlogPieces ==
    {"openai.com/blog", "blog.google", "googleblog.com", "huggingface.co/blog",
     "cursor.com/blog", "cursor.sh/blog", "blog.replit.com", "replit.com/blog",
     "elevenlabs.io/blog", "blog.n8n.io", "n8n.io/blog", "suno.com/blog",
     "runwayml.com/blog", "perplexity.ai/blog", "x.ai/blog", "blog"}

UrlPieces ==
    BlogPieces \cup UrlTails \cup
        {"openai.com/news", "anthropic.com/news", "microsoft.com",
         "runwayml.com/news", "perplexity.ai/hub", "x.ai/news", "deepl.com"}

\* url.includes(text)
Includes(url, text) ==
    \E p \in url : p = text \/ (text = "blog" /\ p \in BlogPieces)

\* rssPatterns.some((pattern) => pattern.test(url))
LooksLikeFeed(url) == url \cap UrlTails # {}

PerSourceParsers ==
    <<"OpenAI News Parser", "Anthropic News Parser", "Google Blog Parser",
      "Microsoft Blog Parser", "Hugging Face Blog Parser",
      "Cursor Blog Parser", "Replit Blog Parser", "ElevenLabs Blog Parser",
      "n8n Blog Parser", "Suno Blog Parser", "Runway Blog Parser",
      "Perplexity Hub Parser", "X.AI News Parser", "DeepL Blog Parser">>

\* getAllParsers(), in its order.
GetAllParsersFeedFirst ==
    <<"RSS/Atom Parser">> \o PerSourceParsers \o <<"HTML Blog Parser">>

GetAllParsers ==
    PerSourceParsers \o <<"RSS/Atom Parser", "HTML Blog Parser">>

\* parser.canParse(url), for the parser of that name.
CanParse(name, url) ==
    CASE name = "OpenAI News Parser" ->
            Includes(url, "openai.com/news") \/ Includes(url, "openai.com/blog")
      [] name = "Anthropic News Parser" -> Includes(url, "anthropic.com/news")
      [] name = "Google Blog Parser" ->
            Includes(url, "blog.google") \/ Includes(url, "googleblog.com")
      [] name = "Microsoft Blog Parser" ->
            Includes(url, "microsoft.com") /\ Includes(url, "blog")
      [] name = "Hugging Face Blog Parser" -> Includes(url, "huggingface.co/blog")
      [] name = "Cursor Blog Parser" ->
            Includes(url, "cursor.com/blog") \/ Includes(url, "cursor.sh/blog")
      [] name = "Replit Blog Parser" ->
            Includes(url, "blog.replit.com") \/ Includes(url, "replit.com/blog")
      [] name = "ElevenLabs Blog Parser" -> Includes(url, "elevenlabs.io/blog")
      [] name = "n8n Blog Parser" ->
            Includes(url, "blog.n8n.io") \/ Includes(url, "n8n.io/blog")
      [] name = "Suno Blog Parser" -> Includes(url, "suno.com/blog")
      [] name = "Runway Blog Parser" ->
            Includes(url, "runwayml.com/news") \/ Includes(url, "runwayml.com/blog")
      [] name = "Perplexity Hub Parser" ->
            Includes(url, "perplexity.ai/hub") \/ Includes(url, "perplexity.ai/blog")
      [] name = "X.AI News Parser" ->
            Includes(url, "x.ai/news") \/ Includes(url, "x.ai/blog")
      [] name = "DeepL Blog Parser" ->
            Includes(url, "deepl.com") /\ Includes(url, "blog")
      [] name = "RSS/Atom Parser" -> LooksLikeFeed(url)
      [] name = "HTML Blog Parser" -> TRUE

\* No parser: what Array.find gives when nothing matches.
NoParser == ""

\* parsers.find((p) => p.name === name)
FindByName(parsers, name) ==
    IF \E i \in 1..Len(parsers) : parsers[i] = name THEN name ELSE NoParser

\* findParser(url): the loop over every parser but the HTML one, then the
\* RSS parser, then the HTML parser.
FindParser(url) ==
    LET parsers == GetAllParsers
        hits == {i \in 1..Len(parsers) :
                    parsers[i] # "HTML Blog Parser" /\ CanParse(parsers[i], url)}
        rssParser == FindByName(parsers, "RSS/Atom Parser")
    IN IF hits # {}
       THEN parsers[CHOOSE i \in hits : \A j \in hits : i <= j]
       ELSE IF rssParser # NoParser /\ CanParse(rssParser, url)
            THEN rssParser
            ELSE FindByName(parsers, "HTML Blog Parser")

NoFound == [called |-> FALSE, url |-> {}, parser |-> NoParser]

\* The url of a source gets one more piece, or a new source starts from none.
UrlExtend(piece) ==
    /\ Cardinality(found.url) < MaxPieces
    /\ piece \notin found.url
    /\ found' = [NoFound EXCEPT !.url = found.url \cup {piece}]
    /\ UNCHANGED <<detectorVars, pipelineVars, fetchCall, parseCall, htmlCall, tbl, xform, tgCall, tr, race, ov>>

UrlReset ==
    /\ found.url # {}
    /\ found' = NoFound
    /\ UNCHANGED <<detectorVars, pipelineVars, fetchCall, parseCall, htmlCall, tbl, xform, tgCall, tr, race, ov>>

\* findParser(url) is called.
FindParserCall ==
    /\ ~found.called
    /\ found' = [found EXCEPT !.called = TRUE, !.parser = FindParser(found.url)]
    /\ UNCHANGED <<detectorVars, pipelineVars, fetchCall, parseCall, htmlCall, tbl, xform, tgCall, tr, race, ov>>

\* ------------------------------------------------- per-source parse
\* customParsers.ts. A page is the list of the elements the parser's selector
\* matches, in document order. An element carries the href of its link and
\* how far it gets: skipped by the parser's href and title filters, old
\* (isAfterDate fails), or recent.
Hrefs == [loc : Locs, form : {"absolute", "relative"}]
Elements == [href : Hrefs, kind : {"skipped", "old", "recent"}]

\* normalizeUrl(href, url): the absolute form, tracking parameters removed.
NormalizeUrl(href) == href.loc

\* How each parser drops repeated links: a set of seen links consulted
\* inside the loop, a filter on the collected list, or not at all.
DedupOf(name) ==
    CASE name = "Anthropic News Parser" -> "seen"
      [] name \in {"OpenAI News Parser", "Google Blog Parser",
                   "Microsoft Blog Parser", "n8n Blog Parser"} -> "none"
      [] OTHER -> "filter"

\* The .each() loop from element i on: news so far, links seen so far.
RECURSIVE Collect(_, _, _, _, _)
Collect(name, page, i, news, seenUrls) ==
    IF i > Len(page) THEN news
    ELSE LET el == page[i]
             link == NormalizeUrl(el.href)
         IN IF el.kind = "skipped"
            THEN Collect(name, page, i + 1, news, seenUrls)
            ELSE IF DedupOf(name) = "seen" /\ link \in seenUrls
            THEN Collect(name, page, i + 1, news, seenUrls)
            ELSE Collect(name, page, i + 1,
                         IF el.kind = "recent" THEN Append(news, link) ELSE news,
                         seenUrls \cup {link})

\* news.filter((item, index, self) =>
\*     index === self.findIndex((t) => t.url === item.url))
UniqueByUrl(news) ==
    LET keep == {i \in 1..Len(news) : \A j \in 1..(i - 1) : news[j] # news[i]}
        RECURSIVE Kept(_)
        Kept(i) == IF i > Len(news) THEN <<>>
                   ELSE IF i \in keep THEN <<news[i]>> \o Kept(i + 1)
                   ELSE Kept(i + 1)
    IN Kept(1)

\* list.slice(0, 20)
SliceLimit(list) ==
    IF Len(list) <= ParserItemLimit THEN list ELSE SubSeq(list, 1, ParserItemLimit)

\* parse(url, tool, since) of the per-source parser of that name, given
\* whether fetchUrl succeeded and the page it returned.
ParsePerSource(name, fetchOk, page) ==
    IF ~fetchOk THEN <<>>
    ELSE LET news == Collect(name, page, 1, <<>>, {})
         IN SliceLimit(IF DedupOf(name) = "filter" THEN UniqueByUrl(news) ELSE news)

\* The site's page as it is, and the latest parse call made on it.
NoParse == [page |-> <<>>, called |-> FALSE, parser |-> NoParser,
            fetchOk |-> FALSE, items |-> <<>>]

\* The site renders one more element, or takes the last one away.
PageAppend(el) ==
    /\ Len(parseCall.page) < MaxList
    /\ parseCall' = [NoParse EXCEPT !.page = Append(parseCall.page, el)]
    /\ UNCHANGED <<detectorVars, pipelineVars, fetchCall, found, htmlCall, tbl, xform, tgCall, tr, race, ov>>

PageRemove ==
    /\ parseCall.page # <<>>
    /\ parseCall' = [NoParse EXCEPT !.page = SubSeq(parseCall.page, 1,
                                                    Len(parseCall.page) - 1)]
    /\ UNCHANGED <<detectorVars, pipelineVars, fetchCall, found, htmlCall, tbl, xform, tgCall, tr, race, ov>>

\* A per-source parser's parse is called on the page.
ParseCall(i, fetchOk) ==
    /\ ~parseCall.called
    /\ parseCall' = [parseCall EXCEPT
                        !.called = TRUE, !.parser = PerSourceParsers[i],
                        !.fetchOk = fetchOk,
                        !.items = ParsePerSource(PerSourceParsers[i], fetchOk,
                                                 parseCall.page)]
    /\ UNCHANGED <<detectorVars, pipelineVars, fetchCall, found, htmlCall, tbl, xform, tgCall, tr, race, ov>>

\* ------------------------------------------------- HtmlBlogParser.parse
\* htmlParser.ts. A page is, for each selector template of
\* getArticleSelectors(), the list of the elements its container selector
\* matches; an element is usable when parseArticle makes an item of it.
Templates == 1..NumTemplates
Containers == {"usable", "unusable"}

ContainersOn(page) ==
    LET RECURSIVE Sum(_)
        Sum(t) == IF t > NumTemplates THEN 0 ELSE Len(page[t]) + Sum(t + 1)
    IN Sum(1)

\* The items parseArticle makes of the elements a template matches: an item
\* is known by its template and the position of its element.
ItemsOf(page, t) ==
    LET RECURSIVE From(_)
        From(i) == IF i > Len(page[t]) THEN <<>>
                   ELSE IF page[t][i] = "usable"
                        THEN <<[template |-> t, element |-> i]>> \o From(i + 1)
                        ELSE From(i + 1)
    IN From(1)

\* if (news.length > 0) break
BreakOnMatches(articles, news) == Len(articles) > 0

BreakAfter(articles, news) == Len(news) > 0

\* for (const selector of selectors), from template t on: the items
\* collected and the templates whose elements were gone through.
RECURSIVE TryTemplates(_, _, _)
TryTemplates(page, t, tried) ==
    IF t > NumTemplates THEN [news |-> <<>>, tried |-> tried]
    ELSE IF Len(page[t]) = 0 THEN TryTemplates(page, t + 1, tried)
    ELSE LET news == ItemsOf(page, t)
         IN IF BreakAfter(page[t], news)
            THEN [news |-> news, tried |-> tried \cup {t}]
            ELSE TryTemplates(page, t + 1, tried \cup {t})

\* parse(url, tool, since), given how the fetch and the document load went:
\* "ok", "failed" (fetchUrl not ok), "xml" (the content is XML) or "throws"
\* (something inside the try threw).
HtmlParse(outcome, page) ==
    IF outcome # "ok" THEN [news |-> <<>>, tried |-> {}]
    ELSE LET r == TryTemplates(page, 1, {})
         IN [news |-> SliceLimit(r.news), tried |-> r.tried]

HtmlOutcomes == {"ok", "failed", "xml", "throws"}

NoHtml == [page |-> [t \in Templates |-> <<>>], called |-> FALSE,
           outcome |-> "none", items |-> <<>>, tried |-> {}]

\* The site renders one more element matching template t's container
\* selector, or takes one away.
HtmlPageAppend(t, c) ==
    /\ ContainersOn(htmlCall.page) < MaxContainers
    /\ htmlCall' = [NoHtml EXCEPT !.page = [htmlCall.page EXCEPT ![t] = Append(@, c)]]
    /\ UNCHANGED <<detectorVars, pipelineVars, fetchCall, found, parseCall, tbl, xform, tgCall, tr, race, ov>>

HtmlPageRemove(t) ==
    /\ htmlCall.page[t] # <<>>
    /\ htmlCall' = [NoHtml EXCEPT !.page = [htmlCall.page EXCEPT
                        ![t] = SubSeq(@, 1, Len(@) - 1)]]
    /\ UNCHANGED <<detectorVars, pipelineVars, fetchCall, found, parseCall, tbl, xform, tgCall, tr, race, ov>>

\* HtmlBlogParser.parse is called on the page.
HtmlParseCall(outcome) ==
    /\ ~htmlCall.called
    /\ LET r == HtmlParse(outcome, htmlCall.page)
       IN htmlCall' = [htmlCall EXCEPT !.called = TRUE, !.outcome = outcome,
                                       !.items = r.news, !.tried = r.tried]
    /\ UNCHANGED <<detectorVars, pipelineVars, fetchCall, found, parseCall, tbl, xform, tgCall, tr, race, ov>>

InitParsers ==
    /\ fetchCall = NoFetch
    /\ found = NoFound
    /\ parseCall = NoParse
    /\ htmlCall = NoHtml

\* ------------------------------------------------------ news_items rows
\* db/queries/newsItems.ts and transformNewsItems. Here the table is a set
\* of rows and a text is the sequence of its characters, so that neither
\* the uniqueness of the hash nor the separation of hash inputs is built in.
Chars == {"a", "|"}

RECURSIVE StringsOf(_)
StringsOf(n) ==
    IF n = 0 THEN {<<>>}
    ELSE StringsOf(n - 1) \cup
            {Append(w, c) : w \in {v \in StringsOf(n - 1) : Len(v) = n - 1},
                            c \in Chars}

\* The parsed items: a url and a title, neither empty, of up to MaxChars
\* characters together.
ParsedItems ==
    {it \in [url : StringsOf(MaxChars - 1), title : StringsOf(MaxChars - 1)] :
        /\ it.url # <<>>
        /\ it.title # <<>>
        /\ Len(it.url) + Len(it.title) <= MaxChars}

\* The items the table is filled with: those of one character each.
StoreItems == {it \in ParsedItems : Len(it.url) = 1 /\ Len(it.title) = 1}

RECURSIVE ParsedListsOf(_)
ParsedListsOf(n) ==
    IF n = 0 THEN {<<>>}
    ELSE ParsedListsOf(n - 1) \cup
            {Append(q, it) : q \in {v \in ParsedListsOf(n - 1) : Len(v) = n - 1},
                             it \in StoreItems}

\* `${item.url}|${item.title}`
HashInput(url, title) == url \o <<"|">> \o title

\* generateHash: SHA-256 of the input, taken as one-to-one.
GenerateHash(input) == input

\* transformNewsItems(parsedNews, tool)
TransformNewsItems(parsedNews, tool) ==
    [i \in 1..Len(parsedNews) |->
        [tool_id |-> tool, url |-> parsedNews[i].url,
         title |-> parsedNews[i].title, importance |-> "none",
         hash |-> GenerateHash(HashInput(parsedNews[i].url, parsedNews[i].title))]]

\* The row the table makes of an input: id from the sequence, digest_date
\* at its default.
NewRow(input, id) ==
    [id |-> id, tool_id |-> input.tool_id, url |-> input.url,
     title |-> input.title, importance |-> input.importance,
     hash |-> input.hash, digest_date |-> NoDate]

NextId(rows) == Cardinality(rows) + 1

\* One input of .upsert(items, {onConflict: "hash", ignoreDuplicates}):
\* without ignoreDuplicates the row in conflict takes the input's columns.
UpsertOverwriting(rows, input) ==
    IF \E r \in rows : r.hash = input.hash
    THEN {IF r.hash = input.hash THEN NewRow(input, r.id) ELSE r : r \in rows}
    ELSE rows \cup {NewRow(input, NextId(rows))}

UpsertOne(rows, input) ==
    IF \E r \in rows : r.hash = input.hash
    THEN rows
    ELSE rows \cup {NewRow(input, NextId(rows))}

\* insertNewsItems(items), on the table as a set of rows.
RECURSIVE InsertRows(_, _)
InsertRows(rows, items) ==
    IF items = <<>> THEN rows
    ELSE InsertRows(UpsertOne(rows, Head(items)), Tail(items))

\* markNewsAsDigested(newsIds, digestDate), on the table as a set of rows.
MarkRows(rows, newsIds, digestDate) ==
    {IF r.id \in newsIds THEN [r EXCEPT !.digest_date = digestDate] ELSE r :
        r \in rows}

NoTransform == [parsed |-> <<>>, called |-> FALSE, items |-> <<>>]

\* A parser's list gets one more item.
ParsedAppend(it) ==
    /\ Len(xform.parsed) < MaxBatch
    /\ xform' = [NoTransform EXCEPT !.parsed = Append(xform.parsed, it)]
    /\ UNCHANGED <<detectorVars, pipelineVars, parserVars, tbl, tgCall, tr, race, ov>>

ParsedReset ==
    /\ xform.parsed # <<>>
    /\ xform' = NoTransform
    /\ UNCHANGED <<detectorVars, pipelineVars, parserVars, tbl, tgCall, tr, race, ov>>

\* transformNewsItems(parsedNews, tool) is called on the list.
TransformCall(tool) ==
    /\ ~xform.called
    /\ xform' = [xform EXCEPT !.called = TRUE,
                              !.items = TransformNewsItems(xform.parsed, tool)]
    /\ UNCHANGED <<detectorVars, pipelineVars, parserVars, tbl, tgCall, tr, race, ov>>

EmptyTable == [rows |-> {}, inserted |-> <<>>]

\* fetchAndInsertNews stores what one source's parser returned.
StoreInsert(tool, parsedNews) ==
    LET items == TransformNewsItems(parsedNews, tool)
        rows == InsertRows(tbl.rows, items)
    IN /\ Cardinality(rows) <= MaxRows
       /\ tbl' = [rows |-> rows, inserted |-> items]
       /\ UNCHANGED <<detectorVars, pipelineVars, parserVars, xform, tgCall, tr, race, ov>>

\* The classifier rates a stored row.
StoreClassify(id) ==
    /\ \E r \in tbl.rows : r.id = id /\ r.importance = "none"
    /\ tbl' = [rows |-> {IF r.id = id THEN [r EXCEPT !.importance = "high"]
                         ELSE r : r \in tbl.rows},
               inserted |-> <<>>]
    /\ UNCHANGED <<detectorVars, pipelineVars, parserVars, xform, tgCall, tr, race, ov>>

\* A pipeline marks rows as digested.
StoreMark(newsIds, digestDate) ==
    /\ newsIds # {}
    /\ tbl' = [rows |-> MarkRows(tbl.rows, newsIds, digestDate), inserted |-> <<>>]
    /\ UNCHANGED <<detectorVars, pipelineVars, parserVars, xform, tgCall, tr, race, ov>>

\* ------------------------------------------- splitMessage, publishToTelegram
\* digestGenerator.ts. A text is held as its runs of equal characters,
\* <<[c |-> "x", n |-> 4096], [c |-> ".", n |-> 1], ...>>, neighbouring runs
\* of different characters; "x" stands for any character that is neither
\* white space nor a period. Indices count from 0 as in the code.
TextChars == {"x", " ", "\n", "."}
RunLengths == {1, 2048, 4096}
WhiteSpace == {" ", "\n"}

RECURSIVE TextLen(_)
TextLen(t) == IF t = <<>> THEN 0 ELSE Head(t).n + TextLen(Tail(t))

\* Index of the first and of the last character of run k.
RunStart(t, k) == TextLen(SubSeq(t, 1, k - 1))
RunEnd(t, k) == RunStart(t, k) + t[k].n - 1

\* text[i], "" outside the text.
CharAt(t, i) ==
    IF \E k \in 1..Len(t) : RunStart(t, k) <= i /\ i <= RunEnd(t, k)
    THEN t[CHOOSE k \in 1..Len(t) : RunStart(t, k) <= i /\ i <= RunEnd(t, k)].c
    ELSE ""

\* The pattern (a sequence of characters) occurs in the text at index i.
OccursAt(t, pattern, i) ==
    /\ i >= 0
    /\ \A j \in 1..Len(pattern) : CharAt(t, i + j - 1) = pattern[j]

\* text.lastIndexOf(pattern, from): the greatest index up to from where the
\* pattern occurs, -1 if none. A last occurrence is at from, or at the end
\* of a run, or one before.
LastIndexOf(t, pattern, from) ==
    LET candidates == {from, from - 1} \cup
                      UNION {{RunEnd(t, k), RunEnd(t, k) - 1} : k \in 1..Len(t)}
        hits == {i \in candidates : i <= from /\ OccursAt(t, pattern, i)}
    IN IF hits = {} THEN -1 ELSE CHOOSE i \in hits : \A j \in hits : j <= i

\* text.substring(from, to)
RECURSIVE SubstringFrom(_, _, _, _)
SubstringFrom(t, k, from, to) ==
    IF k > Len(t) THEN <<>>
    ELSE LET lo == IF RunStart(t, k) > from THEN RunStart(t, k) ELSE from
             hi == IF RunEnd(t, k) + 1 < to THEN RunEnd(t, k) + 1 ELSE to
         IN IF hi > lo
            THEN <<[c |-> t[k].c, n |-> hi - lo]>> \o SubstringFrom(t, k + 1, from, to)
            ELSE SubstringFrom(t, k + 1, from, to)

Substring(t, from, to) == SubstringFrom(t, 1, from, to)

\* text.trim()
RECURSIVE Trim(_)
Trim(t) ==
    IF t = <<>> THEN <<>>
    ELSE IF Head(t).c \in WhiteSpace THEN Trim(Tail(t))
    ELSE IF t[Len(t)].c \in WhiteSpace THEN Trim(SubSeq(t, 1, Len(t) - 1))
    ELSE t

\* The break point splitMessage picks in `remaining`: paragraph, line,
\* sentence, word, and maxLength when there is none.
BreakPoint(remaining, maxLength) ==
    LET paragraph == LastIndexOf(remaining, <<"\n", "\n">>, maxLength)
        line == IF paragraph = -1 \/ 2 * paragraph < maxLength
                THEN LastIndexOf(remaining, <<"\n">>, maxLength)
                ELSE paragraph
        period == LastIndexOf(remaining, <<".", " ">>, maxLength)
        sentence == IF line = -1 \/ 2 * line < maxLength
                    THEN (IF period # -1 THEN period + 1 ELSE -1)
                    ELSE line
        word == IF sentence = -1 \/ 10 * sentence < 3 * maxLength
                THEN LastIndexOf(remaining, <<" ">>, maxLength)
                ELSE sentence
    IN IF word = -1 THEN maxLength ELSE word

\* The while loop of splitMessage.
RECURSIVE SplitLoop(_, _, _)
SplitLoop(remaining, chunks, maxLength) ==
    IF TextLen(remaining) = 0 THEN chunks
    ELSE IF TextLen(remaining) <= maxLength THEN Append(chunks, remaining)
    ELSE LET breakPoint == BreakPoint(remaining, maxLength)
         IN SplitLoop(Trim(Substring(remaining, breakPoint, TextLen(remaining))),
                      Append(chunks, Trim(Substring(remaining, 0, breakPoint))),
                      maxLength)

\* splitMessage(text, maxLength)
SplitMessage(text, maxLength) ==
    IF TextLen(text) <= maxLength THEN <<text>>
    ELSE SplitLoop(text, <<>>, maxLength)

\* The lengths of the texts publishToTelegram passes to sendTelegramMessage:
\* the first chunk as it is, every other one behind the continuation
\* marker; a send that fails ends the call.
TextsPassed(text, firstSendOk) ==
    LET chunks == SplitMessage(text, MaxMessageLength)
        lengths == [i \in 1..Len(chunks) |->
                       IF i = 1 THEN TextLen(chunks[i])
                       ELSE ContinuationMarkerLength + TextLen(chunks[i])]
    IN IF firstSendOk THEN lengths ELSE SubSeq(lengths, 1, 1)

NoPublish == [text |-> <<>>, called |-> FALSE, chunks |-> <<>>, passed |-> <<>>]

\* The digest text gets one more run of characters, or is started afresh.
TextAppend(c, n) ==
    /\ Len(tgCall.text) < MaxSegs
    /\ IF tgCall.text = <<>> THEN TRUE ELSE tgCall.text[Len(tgCall.text)].c # c
    /\ tgCall' = [NoPublish EXCEPT !.text = Append(tgCall.text, [c |-> c, n |-> n])]
    /\ UNCHANGED <<detectorVars, pipelineVars, parserVars, tbl, xform, tr, race, ov>>

TextReset ==
    /\ tgCall.text # <<>>
    /\ tgCall' = NoPublish
    /\ UNCHANGED <<detectorVars, pipelineVars, parserVars, tbl, xform, tr, race, ov>>

\* publishToTelegram(summaryMd, date) is called with the text.
PublishCall(firstSendOk) ==
    /\ ~tgCall.called
    /\ tgCall' = [tgCall EXCEPT !.called = TRUE,
                          !.chunks = SplitMessage(tgCall.text, MaxMessageLength),
                          !.passed = TextsPassed(tgCall.text, firstSendOk)]
    /\ UNCHANGED <<detectorVars, pipelineVars, parserVars, tbl, xform, tr, race, ov>>

\* ----------------------------------------------------- translateToRussian
\* services/digestGenerator.ts.  A completion's content is a sequence of
\* characters; only blank against non-blank matters to the code.
ContentChars == {"a", " "}

RECURSIVE ContentsOf(_)
ContentsOf(n) ==
    IF n = 0 THEN {<<>>}
    ELSE LET shorter == ContentsOf(n - 1)
         IN  shorter \cup {Append(c, ch) : c \in {x \in shorter : Len(x) = n - 1},
                                           ch \in ContentChars}

\* What a complete() call can do: reject, or resolve with a content that is
\* missing or a string.
CompletionOutcomes ==
    {[kind |-> "throws", content |-> <<>>], [kind |-> "null", content |-> <<>>]}
        \cup {[kind |-> "content", content |-> c] : c \in ContentsOf(MaxContent)}

\* String.prototype.trim.
TrimChars(s) ==
    LET idx == {i \in 1..Len(s) : s[i] # " "}
    IN  IF idx = {} THEN <<>>
        ELSE SubSeq(s, CHOOSE i \in idx : \A j \in idx : i <= j,
                       CHOOSE i \in idx : \A j \in idx : i >= j)

\* The same test without the trim.
IsTranslationUntrimmed(o) == o.kind = "content" /\ Len(o.content) > 0
\* if (result.content && result.content.trim().length > 0)
IsTranslation(o) == o.kind = "content" /\ Len(TrimChars(o.content)) > 0

\* The fallback: a fixed preamble followed by the English text.
FallbackMessage(englishText) == <<"F">> \o englishText

NoTranslate ==
    [pc |-> "idle", english |-> FALSE, summaryMd |-> <<>>, attempt |-> 0,
     calls |-> 0, outcomes |-> <<>>, lastError |-> FALSE, summaryMdRu |-> <<>>]

\* generateDailyDigest, step 1: the English completion and
\* parseDigestResponse; a rejection (or a missing content, whose .length
\* throws) is logged and rethrown.  Then translateToRussian is entered.
GenerateEnglish(o) ==
    /\ tr.pc = "idle"
    /\ tr' = IF o.kind # "content" THEN [tr EXCEPT !.pc = "threw"]
             ELSE [tr EXCEPT !.pc = "call", !.english = TRUE,
                             !.summaryMd = TrimChars(o.content),
                             !.attempt = 1]
    /\ UNCHANGED <<detectorVars, pipelineVars, parserVars, tbl, xform, tgCall, race, ov>>

\* translateToRussian: one pass of the for loop up to its next await.
TranslateAttempt(o) ==
    /\ tr.pc = "call"
    /\ LET r0 == [tr EXCEPT !.calls = @ + 1, !.outcomes = Append(@, o)]
           last == tr.attempt >= TranslateMaxRetries
           exhausted == [r0 EXCEPT !.pc = "done",
                                   !.summaryMdRu = FallbackMessage(tr.summaryMd)]
       IN tr' = IF IsTranslation(o)
                THEN [r0 EXCEPT !.pc = "done",
                                !.summaryMdRu = TrimChars(o.content)]
                ELSE IF o.kind = "throws"
                THEN IF last THEN [exhausted EXCEPT !.lastError = TRUE]
                     ELSE [r0 EXCEPT !.lastError = TRUE, !.pc = "delay"]
                ELSE IF last THEN exhausted
                     ELSE [r0 EXCEPT !.attempt = @ + 1]
    /\ UNCHANGED <<detectorVars, pipelineVars, parserVars, tbl, xform, tgCall, race, ov>>

\* The wait before the retry is over.
TranslateDelay ==
    /\ tr.pc = "delay"
    /\ tr' = [tr EXCEPT !.attempt = @ + 1, !.pc = "call"]
    /\ UNCHANGED <<detectorVars, pipelineVars, parserVars, tbl, xform, tgCall, race, ov>>

\* ------------------------------------- overlapping checks of one source
\* Two callers (two pipeline runs) each read the tools row, then run
\* checkAndUpdateLastParsed(tool, true) on the row they read: the page is
\* parsed at its await, the watermark is written at the next one.
Checkers == {1, 2}

NoRace ==
    [proc |-> [p \in Checkers |->
                 [pc |-> "idle", tool |-> NoCheck.tool, readAt |-> 0,
                  page |-> <<>>, outcome |-> "none", result |-> NoCheck.result]],
     writes |-> <<>>]

\* The write of checkAndUpdateLastParsed guarded by a comparison with the
\* watermark the caller read.
CommitWatermarkIfUnchanged(w, tool, url) ==
    IF w[tool.id] = tool.last_parsed_url
    THEN UpdateToolLastParsedUrl(w, tool.id, url) ELSE w
\* await updateToolLastParsedUrl(tool.id, result.latestUrl)
CommitWatermark(w, tool, url) == UpdateToolLastParsedUrl(w, tool.id, url)

\* getActiveTools: the caller reads the source's row, watermark included.
RaceRead(p) ==
    /\ race.proc[p].pc = "idle"
    /\ race' = [race EXCEPT
                  !.proc[p].pc = "check",
                  !.proc[p].tool = ToolRow(DetSource, wm[DetSource]),
                  !.proc[p].readAt = Len(race.writes)]
    /\ UNCHANGED <<detectorVars, pipelineVars, parserVars, tbl, xform, tgCall, tr, ov>>

\* checkForNewContent(tool) on the page as it is now, and the write test.
RaceCheck(p, outcome) ==
    /\ race.proc[p].pc = "check"
    /\ LET result == CheckForNewContent(race.proc[p].tool, feed[DetSource], outcome)
       IN race' = [race EXCEPT
                     !.proc[p].page = feed[DetSource],
                     !.proc[p].outcome = outcome,
                     !.proc[p].result = result,
                     !.proc[p].pc = IF ShouldUpdate(TRUE, result) THEN "write"
                                    ELSE "done"]
    /\ UNCHANGED <<detectorVars, pipelineVars, parserVars, tbl, xform, tgCall, tr, ov>>

\* updateToolLastParsedUrl resolves; the check returns its result.
RaceWrite(p) ==
    /\ race.proc[p].pc = "write"
    /\ wm' = CommitWatermark(wm, race.proc[p].tool, race.proc[p].result.latestUrl)
    /\ held' = HeldAfter(DetSource, wm'[DetSource])
    /\ race' = [race EXCEPT !.proc[p].pc = "done", !.writes = Append(@, p)]
    /\ UNCHANGED <<feed, newsUrl, chk, pipelineVars, parserVars, tbl, xform, tgCall, tr, ov>>

\* The source publishes an article not listed before: it goes on top.
RaceSitePublish ==
    /\ \E l \in Locs \ SeqToSet(feed[DetSource]) :
          /\ Len(feed[DetSource]) < MaxList
          /\ SiteUpdate(DetSource, <<l>> \o feed[DetSource])
    /\ UNCHANGED <<pipelineVars, parserVars, unitVars>>

\* Both checks returned; later the two callers run again.
RaceAgain ==
    /\ \A p \in Checkers : race.proc[p].pc = "done"
    /\ race' = NoRace
    /\ UNCHANGED <<detectorVars, pipelineVars, parserVars, tbl, xform, tgCall, tr, ov>>

\* ------------------------------------------- overlapping pipeline runs
\* Two runRollingDigestPipeline() invocations on the tables as sets of rows:
\* news_items is tbl.rows, daily_digest is ov.digestRows.  Each run is
\* stepped at its awaited storage calls.
Runners == {1, 2}

NoOverlap ==
    [clock |-> 1, digestRows |-> {},
     proc |-> [p \in Runners |-> [pc |-> "idle", today |-> NoDate, news |-> {}]]]

\* .upsert(digestData, {onConflict: "date"}) on the table as a set of rows.
UpsertDigest(rows, input) ==
    {r \in rows : r.date # input.date} \cup {input}

\* const today = formatDateISO(new Date())
OvStart(p) ==
    /\ ov.proc[p].pc = "idle"
    /\ ov' = [ov EXCEPT !.proc[p].pc = "insert", !.proc[p].today = ov.clock]
    /\ UNCHANGED <<detectorVars, pipelineVars, parserVars, tbl, xform, tgCall, tr, race>>

\* fetchAndInsertNews: insertNewsItems of what a source's parser returned.
OvInsert(p, tool, parsedNews) ==
    /\ ov.proc[p].pc = "insert"
    /\ LET items == TransformNewsItems(parsedNews, tool)
           rows == InsertRows(tbl.rows, items)
       IN  /\ Cardinality(rows) <= MaxRows
           /\ tbl' = [rows |-> rows, inserted |-> <<>>]
    /\ ov' = [ov EXCEPT !.proc[p].pc = "query"]
    /\ UNCHANGED <<detectorVars, pipelineVars, parserVars, xform, tgCall, tr, race>>

\* getNewsForDigest: the rows with a null marker (the parsed items carry no
\* date: all are in the undated part); none: the run returns.
OvQuery(p) ==
    /\ ov.proc[p].pc = "query"
    /\ LET ids == {r.id : r \in {q \in tbl.rows : q.digest_date = NoDate}}
       IN ov' = [ov EXCEPT !.proc[p].news = ids,
                           !.proc[p].pc = IF ids = {} THEN "done" ELSE "save"]
    /\ UNCHANGED <<detectorVars, pipelineVars, parserVars, tbl, xform, tgCall, tr, race>>

\* generateDailyDigest, then saveDailyDigest({date: today, ...}).
OvSave(p) ==
    /\ ov.proc[p].pc = "save"
    /\ ov' = [ov EXCEPT
                !.digestRows = UpsertDigest(@, [date |-> ov.proc[p].today,
                                                from |-> ov.proc[p].news]),
                !.proc[p].pc = "mark"]
    /\ UNCHANGED <<detectorVars, pipelineVars, parserVars, tbl, xform, tgCall, tr, race>>

\* markNewsAsDigested(allNewsIds, today), and the run returns.
OvMark(p) ==
    /\ ov.proc[p].pc = "mark"
    /\ tbl' = [rows |-> MarkRows(tbl.rows, ov.proc[p].news, ov.proc[p].today),
               inserted |-> <<>>]
    /\ ov' = [ov EXCEPT !.proc[p].pc = "done"]
    /\ UNCHANGED <<detectorVars, pipelineVars, parserVars, xform, tgCall, tr, race>>

\* Midnight passes.
OvTick ==
    /\ ov.clock < MaxDay
    /\ ov' = [ov EXCEPT !.clock = @ + 1]
    /\ UNCHANGED <<detectorVars, pipelineVars, parserVars, tbl, xform, tgCall, tr, race>>

InitUnits ==
    /\ tbl = EmptyTable
    /\ xform = NoTransform
    /\ tgCall = NoPublish
    /\ tr = NoTranslate
    /\ race = NoRace
    /\ ov = NoOverlap

Init ==
    /\ feed = [s \in Sources |-> <<>>]
    /\ newsUrl = [s \in Sources |-> TRUE]
    /\ wm = [s \in Sources |-> NULL]
    /\ chk = NoCheck
    /\ held = [s \in Sources |-> {}]
    /\ InitPipeline
    /\ InitParsers
    /\ InitUnits

\* The pipeline steps, with every outcome of every awaited call.
Steps ==
    \/ \E fail \in BOOLEAN : DGetDigest(fail)
    \/ \E fail \in BOOLEAN : FGetTools(fail)
    \/ \E outcome \in ParseOutcomes, writeOk \in BOOLEAN : FTool(outcome, writeOk)
    \/ \E fail \in BOOLEAN : FInsert(fail)
    \/ \E success \in BOOLEAN : DCachePublish(success)
    \/ \E fail \in BOOLEAN : DGetNews(fail)
    \/ \E text \in {0} \cup Texts : Generate(text)
    \/ \E fail \in BOOLEAN : Save(fail)
    \/ \E fail \in BOOLEAN : RMark(fail)
    \/ \E success \in BOOLEAN : Publish(success)
    \/ \E outcome \in NewsQueryOutcomes : RGetNews(outcome)

Invoke ==
    \/ \E date \in Days, force, skip, publish \in BOOLEAN :
          StartDaily(date, force, skip, publish)
    \/ \E recentDays \in {0, RecentDaysDefault}, fetchNews, publish, dry \in BOOLEAN :
          StartRolling(recentDays, fetchNews, publish, dry)

\* Up to MaxRuns invocations of either pipeline, one after the other, on a
\* database that starts empty, while days pass, sources publish and the
\* classifier rates stored items.
Next ==
    \/ SitePublish
    \/ Tick
    \/ \E l \in Locs : Classify(l)
    \/ (runs < MaxRuns /\ Invoke)
    \/ Steps

Spec == Init /\ [][Next]_vars

\* ------------------------------------------- specification of the detector
\* One source, any page content, any stored watermark history.

InitDetector ==
    /\ feed \in [Sources -> {<<>>}]
    /\ newsUrl \in {f \in [Sources -> BOOLEAN] : \A s \in Sources \ {DetSource} : f[s]}
    /\ wm = [s \in Sources |-> NULL]
    /\ chk = NoCheck
    /\ held = [s \in Sources |-> {}]
    /\ InitPipeline
    /\ InitParsers
    /\ InitUnits

\* The lists a page showing q can show next: an article is put on top (one
\* listed before included: not every parser deduplicates), the newest
\* article is withdrawn, or the oldest is pruned.
PageEdits(q) ==
    {<<l>> \o q : l \in {x \in Locs : Len(q) < MaxList}}
        \cup (IF q = <<>> THEN {} ELSE {Tail(q), SubSeq(q, 1, Len(q) - 1)})

DetSiteUpdate ==
    /\ \E list \in PageEdits(feed[DetSource]) : SiteUpdate(DetSource, list)
    /\ UNCHANGED <<pipelineVars, parserVars, unitVars>>

DetCheck ==
    /\ \E updateDb \in BOOLEAN, outcome \in ParseOutcomes :
          Check(DetSource, updateDb, outcome)
    /\ UNCHANGED <<pipelineVars, parserVars, unitVars>>

NextDetector == DetSiteUpdate \/ DetCheck

SpecDetector == InitDetector /\ [][NextDetector]_vars

\* --------------------------------------------- specification of fetchUrl
\* Calls of fetchUrl one after the other, with every retry count up to
\* MaxRetry and every outcome of every attempt. Each awaited call settles.
FetchSteps ==
    \/ FetchDelay
    \/ \E status \in Statuses : FetchResponse(status)
    \/ \E fault \in RequestFaults : FetchThrows(fault)
    \/ \E contentType \in ContentTypes, text \in Texts : FetchText(contentType, text)
    \/ \E fault \in BodyFaults : FetchTextThrows(fault)

NextFetch ==
    \/ \E retryCount \in 0..MaxRetry : FetchUrl(retryCount)
    \/ FetchSteps

SpecFetch == Init /\ [][NextFetch]_vars /\ WF_vars(FetchSteps)

\* ------------------------------------------- specification of findParser
\* findParser applied to every url of up to MaxPieces pieces.
NextDispatch ==
    \/ \E piece \in UrlPieces : UrlExtend(piece)
    \/ UrlReset
    \/ FindParserCall

SpecDispatch == Init /\ [][NextDispatch]_vars

\* ------------------------------- specification of the per-source parsers
\* Each per-source parser applied to every page of up to MaxList elements.
NextPerSource ==
    \/ \E el \in Elements : PageAppend(el)
    \/ PageRemove
    \/ \E i \in 1..Len(PerSourceParsers), fetchOk \in BOOLEAN : ParseCall(i, fetchOk)

SpecPerSource == Init /\ [][NextPerSource]_vars

\* ------------------------------ specification of the generic HTML parser
\* HtmlBlogParser.parse applied to every page of up to MaxContainers
\* matched elements, with every outcome of the fetch.
NextHtml ==
    \/ \E t \in Templates, c \in Containers : HtmlPageAppend(t, c)
    \/ \E t \in Templates : HtmlPageRemove(t)
    \/ \E outcome \in HtmlOutcomes : HtmlParseCall(outcome)

SpecHtml == Init /\ [][NextHtml]_vars

\* ------------------------------------------ specification of news_items
\* Sources' items are stored, rated and marked, in any order, on a table of
\* up to MaxRows rows.
NextStore ==
    \/ \E tool \in Sources, parsedNews \in ParsedListsOf(MaxBatch) \ {<<>>} :
          StoreInsert(tool, parsedNews)
    \/ \E id \in 1..MaxRows : StoreClassify(id)
    \/ \E newsIds \in SUBSET {r.id : r \in tbl.rows}, digestDate \in Days :
          StoreMark(newsIds, digestDate)

SpecStore == Init /\ [][NextStore]_vars

\* ---------------------------------- specification of transformNewsItems
\* transformNewsItems applied to every list of up to MaxBatch parsed items
\* of up to MaxChars characters.
NextTransform ==
    \/ \E it \in ParsedItems : ParsedAppend(it)
    \/ ParsedReset
    \/ \E tool \in Sources : TransformCall(tool)

SpecTransform == Init /\ [][NextTransform]_vars

\* ----------------------------------- specification of publishToTelegram
\* publishToTelegram applied to every text of up to MaxSegs runs.
NextPublish ==
    \/ \E c \in TextChars, n \in RunLengths : TextAppend(c, n)
    \/ TextReset
    \/ \E firstSendOk \in BOOLEAN : PublishCall(firstSendOk)

SpecPublish == Init /\ [][NextPublish]_vars

\* --------------------------------- specification of generateDailyDigest
\* One generateDailyDigest call on a non-empty news list, with every outcome
\* of its completion calls.
NextTranslate ==
    \/ \E o \in CompletionOutcomes : GenerateEnglish(o)
    \/ \E o \in CompletionOutcomes : TranslateAttempt(o)
    \/ TranslateDelay

SpecTranslate == Init /\ [][NextTranslate]_vars

\* ------------------------- specification of two overlapping checks
\* Two callers check the same source, their steps interleaved in every way,
\* while the source publishes.
NextRace ==
    \/ \E p \in Checkers : RaceRead(p)
    \/ \E p \in Checkers, outcome \in ParseOutcomes : RaceCheck(p, outcome)
    \/ \E p \in Checkers : RaceWrite(p)
    \/ RaceSitePublish
    \/ RaceAgain

SpecRace == Init /\ [][NextRace]_vars

\* ------------------------ specification of two overlapping pipeline runs
\* Two rolling runs, their storage calls interleaved in every way, each
\* storing up to MaxBatch items of a source, while the day may change.
NextOverlap ==
    \/ \E p \in Runners : OvStart(p)
    \/ \E p \in Runners, tool \in Sources, parsedNews \in ParsedListsOf(MaxBatch) :
          OvInsert(p, tool, parsedNews)
    \/ \E p \in Runners : OvQuery(p)
    \/ \E p \in Runners : OvSave(p)
    \/ \E p \in Runners : OvMark(p)
    \/ OvTick

SpecOverlap == Init /\ [][NextOverlap]_vars

\* ------------------------------------------------------- detector claims

\* The check just made was a successful extraction for a source with a page.
Extracted == chk.tool # 0 /\ chk.outcome = "ok" /\ newsUrl[chk.tool]

\* Position of the first item of list q whose locator is w, 0 if none.
FirstIndexOf(q, w) ==
    IF \E i \in 1..Len(q) : q[i] = w
    THEN CHOOSE i \in 1..Len(q) : q[i] = w /\ \A j \in 1..(i - 1) : q[j] # w
    ELSE 0

\* C2: with a known watermark W and an extraction list L whose first locator
\* differs from W, the check reports exactly the items of L before the first
\* one whose locator is W (all of L when W is not in L), and a committing
\* check sets the watermark to the locator of L's first item.
C2_KnownWatermark ==
    LET L == feed[chk.tool]
        W == chk.result.previousUrl
        k == FirstIndexOf(L, W)
    IN  (Extracted /\ W # NULL /\ Len(L) > 0 /\ L[1] # W) =>
            /\ chk.result.newItems = (IF k = 0 THEN L ELSE SubSeq(L, 1, k - 1))
            /\ chk.result.hasNewContent
            /\ (chk.updateDb => wm[chk.tool] = L[1])

C2_Witness ==
    /\ Extracted /\ chk.updateDb
    /\ chk.result.previousUrl # NULL
    /\ Len(feed[chk.tool]) = 3
    /\ feed[chk.tool][3] = chk.result.previousUrl
    /\ Len(chk.result.newItems) = 2
    /\ wm[chk.tool] = feed[chk.tool][1]

\* C3: a first check (null watermark) of a source whose extraction returns
\* N >= 1 items reports exactly one new item, the first of the list, and a
\* committing check sets the watermark to that item's locator.
C3_FirstCheckBounding ==
    LET L == feed[chk.tool] IN
    (Extracted /\ chk.result.previousUrl = NULL /\ Len(L) >= 1) =>
        /\ chk.result.hasNewContent
        /\ chk.result.newItems = <<L[1]>>
        /\ (chk.updateDb => wm[chk.tool] = L[1])

C3_Witness ==
    /\ Extracted /\ chk.updateDb
    /\ chk.result.previousUrl = NULL
    /\ Len(feed[chk.tool]) = 3
    /\ Len(chk.result.newItems) = 1
    /\ wm[chk.tool] = feed[chk.tool][1]

\* C4 (as claimed): the watermark changes only in a check that reported new
\* content, and is never set back to a locator it held earlier.
C4_NeverReverted ==
    [][\A s \in Sources : wm'[s] # wm[s] =>
          /\ chk'.tool = s /\ chk'.result.hasNewContent
          /\ wm'[s] \notin held[s]]_vars

\* C4 (amended): the watermark changes only in a committing check that
\* reported new content, and it is then set to the locator of the newest
\* item of that check's extraction list.
C4_ChangesOnlyToNewest ==
    [][\A s \in Sources : wm'[s] # wm[s] =>
          /\ chk'.tool = s /\ chk'.updateDb /\ chk'.result.hasNewContent
          /\ chk'.result.newItems # <<>>
          /\ wm'[s] = feed[s][1]]_vars

C4_Witness ==
    /\ chk.tool # 0 /\ chk.wrote
    /\ Cardinality(held[chk.tool]) >= 2
    /\ wm[chk.tool] \notin held[chk.tool]

\* C11: when the extraction yields no item, or its first item's locator is
\* the stored watermark, the check reports no new items and even a
\* committing check does not write the watermark.
C11_NoNewContentLeavesWatermark ==
    LET L == feed[chk.tool]
        W == chk.result.previousUrl
    IN  (Extracted /\ (L = <<>> \/ L[1] = W)) =>
            /\ ~chk.result.hasNewContent
            /\ chk.result.newItems = <<>>
            /\ ~chk.wrote
            /\ wm[chk.tool] = W

C11_Witness ==
    /\ Extracted /\ chk.updateDb
    /\ Len(feed[chk.tool]) >= 2
    /\ feed[chk.tool][1] = chk.result.previousUrl
    /\ ~chk.result.hasNewContent /\ ~chk.wrote
    /\ wm[chk.tool] = chk.result.previousUrl

\* The check just made hit a failing fetch or a raising parser.
FetchOrParseFailed ==
    chk.tool # 0 /\ newsUrl[chk.tool] /\ chk.outcome \in {"fetch_failed", "throws"}

\* C12: when fetching or parsing fails during a check, the check returns no
\* new items with hasNewContent false, the watermark is unchanged, and
\* nothing is raised to the caller.
C12_DetectorFailClosed ==
    FetchOrParseFailed =>
        /\ ~chk.threw
        /\ ~chk.result.hasNewContent
        /\ chk.result.newItems = <<>>
        /\ ~chk.wrote
        /\ wm[chk.tool] = chk.result.previousUrl

C12_Witness ==
    /\ FetchOrParseFailed /\ chk.outcome = "throws" /\ chk.updateDb
    /\ chk.result.previousUrl # NULL
    /\ Len(feed[chk.tool]) >= 1
    /\ feed[chk.tool][1] # chk.result.previousUrl
    /\ wm[chk.tool] = chk.result.previousUrl

\* ------------------------------------------------------- pipeline claims

\* The invocation has returned its result object.
Done == run.pc = "done"

\* What a check of item l's source would report as new right now.
ReportedNow(l) ==
    LET s == OwnerOf(l) IN
    SeqToSet(CheckForNewContent(ToolRow(s, wm[s]), feed[s], "ok").newItems)

\* C1: once a stored item's digest marker is set it is never cleared, and
\* no stored item is in the composed item set of more than one Digest.
C1_AtMostOnceDigestion ==
    [][/\ \A l \in Locs : store[l].digest_date # NoDate
                               => store'[l].digest_date # NoDate
       /\ \A d1, d2 \in Days :
             d1 # d2 => digests'[d1].items \cap digests'[d2].items = {}]_vars

\* C5: when a run fails, every item it reported as new is already stored or
\* is reported as new again by the next check of its source.
C5_NoNewsLost ==
    (Done /\ ~run.ok) =>
        \A l \in run.reported : store[l].stored \/ l \in ReportedNow(l)

\* C6 (as claimed): the second of two successful daily invocations for one
\* target date without forceRegenerate leaves the Digest row as the first
\* left it and reports digestFromCache, not digestGenerated, with no
\* generation call.
C6_IdempotentRerun ==
    (/\ Done /\ run.ok /\ run.kind = "daily" /\ ~run.force
     /\ prev.daily = run.date) =>
        /\ digests[run.date] = run.startRow
        /\ run.digestFromCache /\ ~run.digestGenerated
        /\ run.llmCalls = 0

\* C6 (amended): a daily invocation without forceRegenerate that starts
\* when a Digest row exists for its target date, and whose digest lookup
\* succeeds, leaves that row unchanged, makes no generation call and
\* reports digestFromCache and not digestGenerated.
C6_CachedRerun ==
    (/\ Done /\ run.kind = "daily" /\ ~run.force
     /\ run.startRow # NoRow
     /\ "getDailyDigest" \notin run.storageFailed) =>
        /\ digests[run.date] = run.startRow
        /\ run.digestFromCache /\ ~run.digestGenerated
        /\ run.llmCalls = 0

C6_Witness ==
    /\ Done /\ run.kind = "daily" /\ ~run.force /\ run.ok
    /\ prev.daily = run.date
    /\ run.startRow # NoRow /\ digests[run.date] = run.startRow
    /\ run.digestFromCache /\ run.llmCalls = 0

\* C7 (as claimed): with publishing requested, the digest content for a date
\* is handed to the channel at most once; an invocation that finds the
\* cached Digest does not deliver again what the previous one delivered.
C7_NeverRenotify ==
    ~(/\ Done /\ run.publish /\ run.handed # <<>> /\ run.telegramPublished
      /\ prev.sentDate = run.date
      /\ prev.sentText = run.handed[1])

\* C7 (amended): an invocation hands a digest to the channel at most once
\* and only when publishing is requested; a successful daily invocation
\* served from the cache with publishing requested hands over the cached
\* Digest's text, whether or not it was delivered before.
C7_OneHandOffPerRun ==
    /\ Len(run.handed) <= 1
    /\ (run.handed # <<>> => run.publish)
    /\ (Done /\ run.ok /\ run.digestFromCache /\ run.publish) =>
            run.handed = <<run.existing.text>>

C7_Witness ==
    /\ Done /\ run.ok /\ run.digestFromCache /\ run.publish
    /\ run.telegramPublished
    /\ run.handed = <<run.existing.text>>
    /\ prev.sentDate = run.date /\ prev.sentText = run.existing.text

\* No collaborator other than the fetch of a source failed in this run.
OnlyFetchFailed ==
    /\ run.storageFailed = {}
    /\ \A i \in 1..Len(run.errors) : run.errors[i].at = "tool"

\* C8: when exactly one source fails during fetch, the run processes every
\* other source, persists their new items, returns ok, and its error list
\* has exactly one entry, for the failed source.
C8_PartialFailureAggregation ==
    (Done /\ run.fetch /\ Cardinality(run.fetchFailed) = 1 /\ OnlyFetchFailed) =>
        /\ run.ok
        /\ run.tools = <<>>
        /\ \A l \in run.reported : store[l].stored
        /\ Len(run.errors) = 1
        /\ run.errors[1].tool \in run.fetchFailed

\* The storage calls whose rejection reaches the pipeline's catch block.
FatalStorageCalls ==
    {"getDailyDigest", "getActiveTools", "insertNewsItems", "getTodayNews",
     "recent_failed", "saveDailyDigest", "markNewsAsDigested"}

\* The last entry of the returned error list is the fatal error.
EndsWithFatal ==
    run.errors # <<>> /\ run.errors[Len(run.errors)].at = "fatal"

\* C9 (as claimed): neither pipeline throws, and a run in which a storage
\* call failed returns ok = false with the failure in its error list.
C9_StructuredFailure ==
    /\ run.pc # "thrown"
    /\ (Done /\ run.storageFailed # {}) => (~run.ok /\ EndsWithFatal)

\* C9 (amended): neither pipeline throws; a run in which getDailyDigest,
\* getActiveTools, insertNewsItems, getTodayNews, the recent-items query,
\* saveDailyDigest or markNewsAsDigested failed returns ok = false with
\* that failure as the last entry of its error list.
C9_FatalStorageFailure ==
    /\ run.pc # "thrown"
    /\ (Done /\ run.storageFailed \cap FatalStorageCalls # {}) =>
          /\ ~run.ok /\ EndsWithFatal
          /\ run.errors[Len(run.errors)].msg \in
                (run.storageFailed \cap FatalStorageCalls) \cup {"getNewsForDigest"}

C9_Witness ==
    /\ Done /\ ~run.ok /\ EndsWithFatal
    /\ "insertNewsItems" \in run.storageFailed
    /\ run.reported # {}

\* C10: after a run that composed and saved a Digest without dry-run, every
\* item of the composed set carries that Digest's date as its marker.
C10_ContributorsMarked ==
    (Done /\ run.ok /\ run.saved /\ ~run.dryRun) =>
        \A l \in run.composed : store[l].digest_date = run.date

\* The completion call of this run was made and rejected.
GenerationFault == run.llmCalls > 0 /\ run.text = 0

\* C13 (as claimed): when the text-generation call fails, the failure is in
\* the result's error list and the run is not reported as failed.
C13_GenerationFaultNonFatal ==
    (Done /\ GenerationFault) => (run.errors # <<>> /\ run.ok)

\* C13 (amended): when the text-generation call fails, the run returns
\* ok = false with the failure as the last entry of its error list, reports
\* digestGenerated = false, and saves no Digest and marks no item.
C13_GenerationFaultFatal ==
    (Done /\ GenerationFault) =>
        /\ ~run.ok /\ EndsWithFatal
        /\ run.errors[Len(run.errors)].msg = "generateDailyDigest"
        /\ ~run.digestGenerated /\ ~run.saved
        /\ digests[run.date] = run.startRow
        /\ run.newsMarkedAsDigested = 0

C13_Witness ==
    /\ Done /\ GenerationFault /\ ~run.ok
    /\ run.news # {} /\ run.startRow # NoRow
    /\ digests[run.date] = run.startRow

\* The run composed and saved a Digest and its publish call then failed.
PublishFault ==
    run.saved /\ run.handed # <<>> /\ ~run.telegramPublished

\* C14: when publishing fails after a Digest was composed and saved, the
\* saved Digest row is unchanged, the result has ok = true and
\* telegramPublished = false, and the error list holds the publish error.
C14_PublishFaultNonFatal ==
    (Done /\ PublishFault) =>
        /\ run.ok /\ ~run.telegramPublished
        /\ digests[run.date] = [text |-> run.text, items |-> run.composed]
        /\ \E i \in 1..Len(run.errors) :
              run.errors[i].at = "telegram" /\ run.errors[i].msg = "telegram"

C14_Witness ==
    /\ Done /\ PublishFault /\ run.ok /\ run.kind = "rolling"
    /\ run.newsMarkedAsDigested > 0
    /\ digests[run.date].text = run.text

\* ------------------------------------------------------- fetchUrl claims

\* Attempt number i of the call (counted from 1) timed out / was answered
\* with a client error other than 429 / with a server error or 429.
TimedOut(i) == fetchCall.outcomes[i].fault = "timeout"
ClientError(i) ==
    LET status == fetchCall.outcomes[i].status
    IN status >= 400 /\ status < 500 /\ status # 429
ServerErrorOr429(i) ==
    LET status == fetchCall.outcomes[i].status
    IN status >= 500 \/ status = 429
Attempts == Len(fetchCall.outcomes)

\* C15: an attempt that times out or is answered with a 4xx status other
\* than 429 is the last one, and the call has returned a failure, however
\* many retries remain; an attempt answered with a 5xx or 429 status after
\* fewer than retryCount retries is followed by another attempt (its delay
\* has begun, or it has been made).
C15_RetryClassification ==
    \A i \in 1..Attempts :
        /\ (TimedOut(i) \/ ClientError(i)) =>
              /\ i = Attempts
              /\ fetchCall.pc = "returned"
              /\ ~fetchCall.result.ok
        /\ (ServerErrorOr429(i) /\ i - 1 < fetchCall.retryCount) =>
              /\ fetchCall.attempt >= i
              /\ fetchCall.pc \in {"delay", "fetch", "text"} \/ Attempts > i

\* A 5xx and a 429 were each retried, then a 4xx ended the call with a
\* retry to spare.
C15_Witness ==
    /\ fetchCall.pc = "returned"
    /\ Attempts = 3
    /\ fetchCall.retryCount > 2
    /\ fetchCall.outcomes[1].status >= 500
    /\ fetchCall.outcomes[2].status = 429
    /\ ClientError(3)

FetchActive == fetchCall.pc \in {"delay", "fetch", "text"}

C16_Bounded ==
    /\ fetchCall.pc # "thrown"
    /\ Attempts <= fetchCall.retryCount + 1
    /\ fetchCall.pc = "returned" =>
          /\ Attempts >= 1
          /\ IF fetchCall.result.ok
             THEN /\ fetchCall.result.text \in Texts
                  /\ fetchCall.result.contentType \in ContentTypes
                  /\ fetchCall.result.error = NoError
             ELSE fetchCall.result.error # NoError

\* C16: whatever the retry count and the outcomes of the attempts, a call
\* never throws, never makes more than retryCount + 1 attempts, and returns
\* after at least one attempt with either ok and the payload or not ok and
\* a reason.
C16_BoundedNeverThrows == []C16_Bounded /\ (FetchActive ~> fetchCall.pc = "returned")

\* Every attempt the retry count allows was made and failed.
C16_Witness ==
    /\ fetchCall.pc = "returned"
    /\ fetchCall.retryCount = MaxRetry
    /\ Attempts = MaxRetry + 1
    /\ ~fetchCall.result.ok
    /\ \E i \in 1..Attempts : fetchCall.outcomes[i].fault = "body"
    /\ \E i \in 1..Attempts : fetchCall.outcomes[i].fault = "network"

FirstAccepting(url) ==
    LET accepting == {i \in 1..Len(GetAllParsers) : CanParse(GetAllParsers[i], url)}
    IN IF accepting = {} THEN 0 ELSE CHOOSE i \in accepting : \A j \in accepting : i <= j

IsPerSource(name) == \E i \in 1..Len(PerSourceParsers) : PerSourceParsers[i] = name

\* C18: findParser returns the first parser, in the order per-source
\* parsers, feed parser, generic fallback, whose canParse accepts the url;
\* a per-source parser that accepts the url is chosen over the feed parser,
\* and some parser is always returned.
C18_StrategyDispatch ==
    found.called =>
    /\ found.parser # NoParser
    /\ FirstAccepting(found.url) # 0
    /\ found.parser = GetAllParsers[FirstAccepting(found.url)]
    /\ \A i \in 1..(FirstAccepting(found.url) - 1) :
          ~CanParse(GetAllParsers[i], found.url)
    /\ ((\E i \in 1..Len(PerSourceParsers) : CanParse(PerSourceParsers[i], found.url))
          /\ CanParse("RSS/Atom Parser", found.url)) => IsPerSource(found.parser)

\* A feed url of a site that has its own parser went to that parser.
C18_Witness ==
    /\ found.called
    /\ LooksLikeFeed(found.url)
    /\ Includes(found.url, "huggingface.co/blog")
    /\ found.parser = "Hugging Face Blog Parser"

\* ------------------------------------------------- per-source parse claims

\* C19: the list one parse call of a per-source parser returns holds no two
\* items with the same locator.
C19_PerSourceDedup ==
    parseCall.called =>
        \A i, j \in 1..Len(parseCall.items) :
            i # j => parseCall.items[i] # parseCall.items[j]

\* --------------------------------------------- generic HTML parser claims

\* The templates whose container selector matches an element of the page,
\* and those that make an item of one.
Matching == {t \in Templates : htmlCall.page[t] # <<>>}
Yielding == {t \in Templates : ItemsOf(htmlCall.page, t) # <<>>}
Parsed == htmlCall.called /\ htmlCall.outcome = "ok"

\* C20, as stated: the items come only from the first template whose
\* container selector matches an element, and no later template is tried,
\* even when that template yields no usable item.
C20_FirstMatchingTemplateOnly ==
    (Parsed /\ Matching # {}) =>
        LET first == CHOOSE t \in Matching : \A u \in Matching : t <= u
        IN /\ htmlCall.tried = {first}
           /\ \A i \in 1..Len(htmlCall.items) : htmlCall.items[i].template = first

\* C20, amended: the items are those of the first template, in list order,
\* that yields a usable item; every matching template before it was gone
\* through and gave nothing, and no template after it is tried. When no
\* template yields an item, every matching template is tried and the list is
\* empty.
C20_FirstYieldingTemplate ==
    Parsed =>
        IF Yielding = {}
        THEN htmlCall.items = <<>> /\ htmlCall.tried = Matching
        ELSE LET first == CHOOSE t \in Yielding : \A u \in Yielding : t <= u
             IN /\ htmlCall.items = SliceLimit(ItemsOf(htmlCall.page, first))
                /\ htmlCall.tried = {t \in Matching : t <= first}

\* The first matching template gave no usable item and a later one was used,
\* with a third matching template after it left untried.
C20_Witness ==
    /\ Parsed
    /\ htmlCall.items # <<>>
    /\ \E t \in Matching : t < htmlCall.items[1].template
    /\ \E t \in Matching : t > htmlCall.items[1].template /\ t \notin htmlCall.tried

\* ---------------------------------------------------- news_items claims

\* A row of the table holds the (url, title) of the input.
StoredAs(r, input) == r.url = input.url /\ r.title = input.title

\* C21: the table never holds two rows with the same hash, and an insert
\* leaves every row that was there as it was, field by field: a stored
\* (url, title) inserted again, by whatever source, changes nothing.
C21_ReingestionNoOp ==
    /\ [](\A r, q \in tbl.rows : r.hash = q.hash => r = q)
    /\ [][tbl'.inserted # <<>> => \A r \in tbl.rows : r \in tbl'.rows]_vars

\* A stored item, rated and marked, was inserted again by the other source.
C21_Witness ==
    /\ tbl.inserted # <<>>
    /\ \E r \in tbl.rows :
          /\ StoredAs(r, tbl.inserted[1])
          /\ r.tool_id # tbl.inserted[1].tool_id
          /\ r.digest_date # NoDate
          /\ r.importance = "high"

\* C22: transformNewsItems gives two items the same hash exactly when they
\* have the same (url, title), whatever characters these hold.
C22_FingerprintSeparation ==
    xform.called =>
        \A i, j \in 1..Len(xform.items) :
            (xform.items[i].hash = xform.items[j].hash)
                <=> (/\ xform.items[i].url = xform.items[j].url
                     /\ xform.items[i].title = xform.items[j].title)

\* ------------------------------------------------ publishToTelegram claims

\* C23: every text publishToTelegram passes to the channel has at most
\* 4096 characters.
C23_PayloadLimit ==
    tgCall.called => \A i \in 1..Len(tgCall.passed) : tgCall.passed[i] <= MaxMessageLength
\* ------------------------------------------------------ dry-run claims

\* A runRollingDigestPipeline invocation with dryRun = true and its other
\* options at their defaults is under way.
DefaultDryRun ==
    /\ ~Returned
    /\ run.kind = "rolling" /\ run.dryRun
    /\ run.fetch /\ ~run.publish /\ run.recentDays = RecentDaysDefault

\* C24: a rolling invocation with dryRun = true (other options at their
\* defaults) changes no stored item's digest marker, no source watermark and
\* no stored digest row.
C24_DryRunPreviewOnly ==
    [][DefaultDryRun =>
          /\ \A l \in Locs : store'[l].digest_date = store[l].digest_date
          /\ wm' = wm
          /\ digests' = digests]_vars

\* --------------------------------------------- empty composition claims

\* The calls whose rejection ends an invocation before or at the query for
\* the items to compose from.
QueryBlockers ==
    {"getDailyDigest", "getActiveTools", "insertNewsItems", "getTodayNews",
     "recent_failed"}

\* The invocation's query for the items to compose from returned and found
\* none: getTodayNews gave [] (daily), or recentNews and missedNews are both
\* empty (rolling).
FoundNoneEligible ==
    /\ run.kind # "none"
    /\ run.pc \in {"publish", "done"}
    /\ ~run.digestFromCache
    /\ run.storageFailed \cap QueryBlockers = {}
    /\ run.news \cup run.missed = {}

\* C26: an invocation (daily or rolling) whose composition finds zero
\* eligible items makes no completion call, writes no digest row, throws
\* nothing and returns ok = true with digestGenerated = false.
C26_EmptyComposition ==
    FoundNoneEligible =>
        /\ run.llmCalls = 0
        /\ ~run.saved /\ digests = [digests EXCEPT ![run.date] = run.startRow]
        /\ ~run.digestGenerated
        /\ run.pc = "done" => run.ok /\ run.errors = run.fErrors

\* A rolling invocation that fetched returned after finding nothing to
\* compose from although an item is stored: it carries a marker already.
C26_Witness ==
    /\ FoundNoneEligible /\ run.pc = "done" /\ run.kind = "rolling" /\ run.fetch
    /\ \E l \in Locs : store[l].stored /\ store[l].digest_date # NoDate

\* ------------------------------------------------ result fidelity claims

\* The items whose digest marker the invocation set: only the rolling
\* pipeline marks, and getNewsForDigest hands it items with a null marker.
MarkedByRun ==
    IF run.kind = "rolling"
    THEN {l \in run.news \cup run.missed : store[l].digest_date # NoDate}
    ELSE {}

\* C30: every invocation of either pipeline, also one that fails part-way,
\* returns digestGenerated = true exactly when it wrote a digest row, and
\* newsMarkedAsDigested = the number of items whose marker it set.
C30_ResultFidelity ==
    run.pc = "done" =>
        /\ run.digestGenerated <=> run.saved
        /\ run.newsMarkedAsDigested = Cardinality(MarkedByRun)

\* ------------------------------------------------- marked items claims

\* C29: every stored item whose digest marker is a date D is among the items
\* the digest row stored for D was composed from (so no later invocation
\* replaces that row by one composed without the item).
C29_MarkedItemsStayInDigest ==
    \A l \in Locs :
        (store[l].stored /\ store[l].digest_date # NoDate)
            => l \in digests[store[l].digest_date].items

\* ------------------------------------------------- translation claims

\* The attempts of the call that gave a non-blank translation.
GoodAttempts ==
    {i \in 1..Len(tr.outcomes) :
        /\ tr.outcomes[i].kind = "content"
        /\ \E k \in 1..Len(tr.outcomes[i].content) : tr.outcomes[i].content[k] # " "}

\* C28: translateToRussian makes at most 2 completion calls, returns the
\* first non-empty translation, returns the fallback message holding the
\* English text when both attempts throw or give empty text, and never
\* throws: generateDailyDigest does not fail once the English digest exists.
C28_TranslationRetryBudget ==
    /\ tr.calls <= 2
    /\ tr.english => tr.pc # "threw"
    /\ tr.pc = "done" =>
          IF GoodAttempts = {}
          THEN /\ Len(tr.outcomes) = 2
               /\ tr.summaryMdRu = FallbackMessage(tr.summaryMd)
          ELSE LET first == CHOOSE i \in GoodAttempts : \A j \in GoodAttempts : i <= j
               IN  /\ Len(tr.outcomes) = first
                   /\ tr.summaryMdRu = TrimChars(tr.outcomes[first].content)

\* The first attempt threw, the second gave blank text, and the call
\* returned the fallback around a non-empty English digest.
C28_Witness ==
    /\ tr.pc = "done" /\ tr.summaryMd # <<>>
    /\ Len(tr.outcomes) = 2
    /\ tr.outcomes[1].kind = "throws"
    /\ tr.outcomes[2] = [kind |-> "content", content |-> <<" ">>]
    /\ tr.summaryMdRu = FallbackMessage(tr.summaryMd)

\* -------------------------------------------- overlapping check claims

\* Both checks read the row before either wrote the watermark, and both
\* returned.
OverlappedChecks ==
    \A p \in Checkers : race.proc[p].pc = "done" /\ race.proc[p].readAt = 0

\* Article a stands above article b on the page: a is the newer one.
NewerOnPage(a, b) ==
    \E i, j \in 1..Len(feed[DetSource]) :
        feed[DetSource][i] = a /\ feed[DetSource][j] = b /\ i < j

\* C27: when two committing checks of one source overlap, the watermark
\* written last stays, whatever was committed before it, and both checks
\* work from the same watermark, so checks that saw the same page report the
\* same items; the state in which the stored watermark is older than a
\* committed one and an item was reported twice is reachable.
C27_WatermarkLostUpdate ==
    OverlappedChecks =>
        /\ race.writes # <<>> =>
              wm[DetSource] = race.proc[race.writes[Len(race.writes)]].result.latestUrl
        /\ race.proc[1].tool = race.proc[2].tool
        /\ (race.proc[1].page = race.proc[2].page
               /\ race.proc[1].outcome = race.proc[2].outcome)
              => race.proc[1].result.newItems = race.proc[2].result.newItems

\* Both overlapping checks wrote; the watermark that stays is older than
\* the one committed first, and one item was reported as new by both.
C27_Witness ==
    /\ OverlappedChecks
    /\ Len(race.writes) = 2
    /\ NewerOnPage(race.proc[race.writes[1]].result.latestUrl, wm[DetSource])
    /\ SeqToSet(race.proc[1].result.newItems)
          \cap SeqToSet(race.proc[2].result.newItems) # {}

\* ------------------------------------------------ overlapping run claims

\* C25: under any interleaving of two overlapping pipeline runs the store
\* never holds two items with the same fingerprint nor two digests for the
\* same date, and a digest marker that is set is never overwritten with a
\* different date.
C25_DuplicateWritesSafe ==
    /\ [](\A r, q \in tbl.rows : r.hash = q.hash => r = q)
    /\ [](\A d, e \in ov.digestRows : d.date = e.date => d = e)
    /\ [][\A r \in tbl.rows : \A q \in tbl'.rows :
            (q.id = r.id /\ r.digest_date # NoDate)
                => q.digest_date = r.digest_date]_vars

====
